---- MODULE Spec2Model ----
(***************************************************************************)
(* Model of the caching and context-reduction layer of the desktop        *)
(* automation bridge: the session cache (context_manager.py) and the      *)
(* screenshot cache (vision/vision_service.py).                           *)
(*                                                                         *)
(* Python values are modelled as tagged records [t |-> type, v |-> value]: *)
(*   None -> PyNone, str -> a TLA+ string, int -> an integer, list -> a    *)
(*   sequence of tagged values, dict -> a function from field names to     *)
(*   tagged values.                                                        *)
(* Time is a discrete clock: `now` counts seconds for the session cache.   *)
(***************************************************************************)
EXTENDS Integers, Sequences, FiniteSets, TLC

(***************************************************************************)
(* Python values                                                           *)
(***************************************************************************)
PyNone == [t |-> "none", v |-> 0]
PyStr(s) == [t |-> "str", v |-> s]
PyInt(n) == [t |-> "int", v |-> n]
PyList(l) == [t |-> "list", v |-> l]
PyDict(d) == [t |-> "dict", v |-> d]

EmptyMap == [k \in {} |-> PyNone]

\* dict.get(key, default)
DictGet(d, k, default) == IF k \in DOMAIN d.v THEN d.v[k] ELSE default

\* Python truthiness (`if value:`)
Truthy(x) ==
    CASE x.t = "none" -> FALSE
      [] x.t = "str" -> x.v # ""
      [] x.t = "int" -> x.v # 0
      [] x.t = "list" -> x.v # <<>>
      [] x.t = "dict" -> DOMAIN x.v # {}

\* `value is None or value == "" or value == []`
IsEmptyValue(x) ==
    \/ x.t = "none"
    \/ (x.t = "str" /\ x.v = "")
    \/ (x.t = "list" /\ x.v = <<>>)

\* str(value) for the value types that reach compute_hash
PyToStr(x) ==
    CASE x.t = "str" -> x.v
      [] x.t = "int" -> ToString(x.v)
      [] x.t = "none" -> "None"
      [] OTHER -> "?"

\* a string of n characters
RECURSIVE Chars(_)
Chars(n) == IF n = 0 THEN "" ELSE "a" \o Chars(n - 1)

\* a list of n integers
Ints(n) == [i \in 1..n |-> PyInt(i)]

(***************************************************************************)
(* ResponseCompressor                                                      *)
(***************************************************************************)
MAX_TEXT_LENGTH == 100
MAX_ELEMENTS_FULL == 10
ELEMENT_TEXT_LENGTH == 50
NESTED_LIST_LIMIT == 10
ESSENTIAL_ELEMENT_FIELDS == <<"name", "type", "id", "x", "y", "w", "h">>

\* value[:n]
Prefix(s, n) == IF Len(s) <= n THEN s ELSE SubSeq(s, 1, n)

\* ResponseCompressor._compress_element
CompressElementField(x) ==
    IF x.t = "str" /\ Len(x.v) > ELEMENT_TEXT_LENGTH
    THEN PyStr(Prefix(x.v, ELEMENT_TEXT_LENGTH) \o "...")
    ELSE x

CompressElement(element) ==
    LET fields == {ESSENTIAL_ELEMENT_FIELDS[i] : i \in DOMAIN ESSENTIAL_ELEMENT_FIELDS}
        kept == {f \in fields : f \in DOMAIN element.v /\ Truthy(element.v[f])}
        autoId == DictGet(element, "automation_id", PyNone)
        useAuto == Truthy(autoId) /\ autoId # DictGet(element, "name", PyNone)
        keys == IF useAuto THEN kept \cup {"id"} ELSE kept
        essential == [f \in keys |->
                        IF useAuto /\ f = "id" THEN element.v["automation_id"]
                        ELSE CompressElementField(element.v[f])]
    IN IF keys # {} THEN PyDict(essential) ELSE element

\* ResponseCompressor._compress_element_list
CompressElementList(elements) ==
    IF elements = <<>>
    THEN PyDict([k \in {"count", "elements"} |->
                    IF k = "count" THEN PyInt(0) ELSE PyList(<<>>)])
    ELSE LET full == Prefix(elements, MAX_ELEMENTS_FULL)
             compressed == [i \in DOMAIN full |->
                              IF full[i].t = "dict" THEN CompressElement(full[i])
                              ELSE full[i]]
         IN PyDict([k \in {"count", "showing", "elements"} |->
                      CASE k = "count" -> PyInt(Len(elements))
                        [] k = "showing" -> PyInt(Len(compressed))
                        [] k = "elements" -> PyList(compressed)])

\* ResponseCompressor._compress_dict
RECURSIVE CompressDict(_)
CompressDict(d) ==
    LET keys == {k \in DOMAIN d.v : ~IsEmptyValue(d.v[k])}
    IN PyDict([k \in keys |->
                 CASE d.v[k].t = "dict" -> CompressDict(d.v[k])
                   [] d.v[k].t = "list" /\ Len(d.v[k].v) > NESTED_LIST_LIMIT ->
                        CompressElementList(d.v[k].v)
                   [] OTHER -> d.v[k]])

IsErrorResponse(response) == DictGet(response, "status", PyNone) = PyStr("error")

\* compress without the early return for error responses
CompressErrorsToo(response) ==
    IF response.t # "dict" THEN response
    ELSE LET keys == {k \in DOMAIN response.v : ~IsEmptyValue(response.v[k])}
         IN PyDict([k \in keys |->
                      LET value == response.v[k]
                      IN CASE value.t = "str" /\ Len(value.v) > MAX_TEXT_LENGTH ->
                                PyStr(Prefix(value.v, MAX_TEXT_LENGTH) \o "...")
                           [] value.t = "list" /\ Len(value.v) > MAX_ELEMENTS_FULL ->
                                CompressElementList(value.v)
                           [] value.t = "dict" -> CompressDict(value)
                           [] OTHER -> value])

\* ResponseCompressor.compress
Compress(response) ==
    IF response.t # "dict" THEN response
    ELSE IF IsErrorResponse(response) THEN response
    ELSE LET keys == {k \in DOMAIN response.v : ~IsEmptyValue(response.v[k])}
         IN PyDict([k \in keys |->
                      LET value == response.v[k]
                      IN CASE value.t = "str" /\ Len(value.v) > MAX_TEXT_LENGTH ->
                                PyStr(Prefix(value.v, MAX_TEXT_LENGTH) \o "...")
                           [] value.t = "list" /\ Len(value.v) > MAX_ELEMENTS_FULL ->
                                CompressElementList(value.v)
                           [] value.t = "dict" -> CompressDict(value)
                           [] OTHER -> value])

(***************************************************************************)
(* WindowStateTracker.compute_hash                                         *)
(***************************************************************************)
KEY_ELEMENTS_HASHED == 5

RECURSIVE JoinBar(_)
JoinBar(parts) ==
    IF Len(parts) = 0 THEN ""
    ELSE IF Len(parts) = 1 THEN parts[1]
    ELSE parts[1] \o "|" \o JoinBar(Tail(parts))

\* md5(state_str).hexdigest()[:12]: the digest is taken to be injective on
\* the window infos of the model; it is never "unknown" or "desktop".
Md5Hex(s) == "md5:" \o s

ComputeHash(window_info) ==
    LET state_parts == << PyToStr(DictGet(window_info, "bounds", PyStr(""))),
                          PyToStr(DictGet(window_info, "element_count", PyInt(0))),
                          PyToStr(DictGet(window_info, "title", PyStr(""))) >>
        key_elements == DictGet(window_info, "key_elements", PyList(<<>>))
        firstKeys == Prefix(key_elements.v, KEY_ELEMENTS_HASHED)
        element_names == [i \in DOMAIN firstKeys |->
                            PyToStr(DictGet(firstKeys[i], "name", PyStr("")))]
    IN Md5Hex(JoinBar(IF Truthy(key_elements) THEN state_parts \o element_names
                      ELSE state_parts))

(***************************************************************************)
(* SemanticCache                                                           *)
(* _cache is an OrderedDict: a sequence of entries, oldest position first. *)
(* _window_hashes maps a window selector to its fingerprint; NoHash stands *)
(* for an absent key.  params is [window, selector] with NoSel for an      *)
(* absent (or empty) parameter.                                            *)
(***************************************************************************)
DEFAULT_TTL == 30
MAX_ENTRIES == 100

TTL_BY_COMMAND ==
    [a \in {"explore", "explore_window", "get_window_summary",
            "get_interactive_elements", "find_element", "element_exists",
            "get_element_brief"} |->
        CASE a = "explore" -> 60
          [] a = "explore_window" -> 30
          [] a = "get_window_summary" -> 30
          [] a = "get_interactive_elements" -> 20
          [] a = "find_element" -> 10
          [] a = "element_exists" -> 5
          [] a = "get_element_brief" -> 10]

NoSel == ""
NoHash == "<absent>"
NoValue == PyNone

\* SemanticCache._normalize_key: md5 of "action:json(sorted params)", taken
\* to be injective on (action, params)
NormalizeKey(action, params) == <<action, params>>

\* params.get("window") or params.get("selector")
WindowOrSelector(params) ==
    IF params.window # NoSel THEN params.window ELSE params.selector

\* params.get("selector") or params.get("window")
SelectorOrWindow(params) ==
    IF params.selector # NoSel THEN params.selector ELSE params.window

\* SemanticCache._get_window_hash
GetWindowHash(hashes, window_selector) ==
    IF window_selector = NoSel THEN "desktop"
    ELSE IF hashes[window_selector] = NoHash THEN "unknown"
    ELSE hashes[window_selector]

\* is_expired treating an entry of age exactly ttl as expired
IsExpiredAtTtl(entry, t) == t - entry.created_at >= entry.ttl_seconds

\* CacheEntry.is_expired
IsExpired(entry, t) == t - entry.created_at > entry.ttl_seconds

HasKey(c, key) == \E i \in DOMAIN c : c[i].key = key
EntryOf(c, key) == c[CHOOSE i \in DOMAIN c : c[i].key = key]
DelKey(c, key) == LET Keep(e) == e.key # key IN SelectSeq(c, Keep)
KeysOf(c) == {c[i].key : i \in DOMAIN c}

\* SemanticCache.get without the window-fingerprint check
CacheGetNoFingerprint(c, hashes, t, action, params) ==
    LET key == NormalizeKey(action, params)
    IN IF ~HasKey(c, key)
       THEN [cache |-> c, hit |-> FALSE, value |-> NoValue, invalidated |-> 0]
       ELSE LET entry == EntryOf(c, key)
            IN IF t - entry.created_at > entry.ttl_seconds
               THEN [cache |-> DelKey(c, key), hit |-> FALSE, value |-> NoValue,
                     invalidated |-> 0]
               ELSE [cache |-> Append(DelKey(c, key), entry),
                     hit |-> TRUE, value |-> entry.value, invalidated |-> 0]

\* SemanticCache.get: the cache after the lookup, hit flag and value
CacheGet(c, hashes, t, action, params) ==
    LET key == NormalizeKey(action, params)
    IN IF ~HasKey(c, key)
       THEN [cache |-> c, hit |-> FALSE, value |-> NoValue, invalidated |-> 0]
       ELSE LET entry == EntryOf(c, key)
                current_hash == GetWindowHash(hashes, WindowOrSelector(params))
            IN IF IsExpired(entry, t)
               THEN [cache |-> DelKey(c, key), hit |-> FALSE, value |-> NoValue,
                     invalidated |-> 0]
               ELSE IF entry.window_hash # current_hash /\ entry.window_hash # "desktop"
               THEN [cache |-> DelKey(c, key), hit |-> FALSE, value |-> NoValue,
                     invalidated |-> 1]
               ELSE [cache |-> Append(DelKey(c, key), entry),
                     hit |-> TRUE, value |-> entry.value, invalidated |-> 0]

\* the eviction loop of SemanticCache.set
RECURSIVE EvictToCapacity(_, _)
EvictToCapacity(c, max) ==
    IF Len(c) >= max /\ Len(c) > 0 THEN EvictToCapacity(Tail(c), max) ELSE c

\* OrderedDict.__setitem__: an existing key keeps its position
PutEntry(c, entry) ==
    IF HasKey(c, entry.key)
    THEN [i \in DOMAIN c |-> IF c[i].key = entry.key THEN entry ELSE c[i]]
    ELSE Append(c, entry)

\* SemanticCache.set
CacheSet(c, hashes, t, max, action, params, value) ==
    LET key == NormalizeKey(action, params)
        ttl == IF action \in DOMAIN TTL_BY_COMMAND THEN TTL_BY_COMMAND[action]
               ELSE DEFAULT_TTL
        window_hash == GetWindowHash(hashes, WindowOrSelector(params))
    IN PutEntry(EvictToCapacity(c, max),
                [key |-> key, value |-> value, window_hash |-> window_hash,
                 created_at |-> t, ttl_seconds |-> ttl])

\* update_window_hash clearing the whole cache on a fingerprint change
UpdateWindowHashClearsAll(c, hashes, window_selector, new_hash) ==
    IF hashes[window_selector] # new_hash
    THEN [cache |-> <<>>, hashes |-> [hashes EXCEPT ![window_selector] = new_hash]]
    ELSE [cache |-> c, hashes |-> hashes]

\* SemanticCache.update_window_hash
UpdateWindowHash(c, hashes, window_selector, new_hash) ==
    LET old_hash == hashes[window_selector]
        Keep(e) == e.window_hash # old_hash
    IN IF old_hash # new_hash
       THEN [cache |-> SelectSeq(c, Keep),
             hashes |-> [hashes EXCEPT ![window_selector] = new_hash]]
       ELSE [cache |-> c, hashes |-> hashes]

\* invalidate_window matching the entries' fingerprint against the selector
\* instead of the selector's fingerprint
InvalidateWindowBySelector(c, hashes, window_selector) ==
    LET Keep(e) == e.window_hash # window_selector
    IN SelectSeq(c, Keep)

\* SemanticCache.invalidate_window
InvalidateWindow(c, hashes, window_selector) ==
    LET window_hash == IF hashes[window_selector] = NoHash THEN "unknown"
                       ELSE hashes[window_selector]
        Keep(e) == e.window_hash # window_hash
    IN SelectSeq(c, Keep)

(***************************************************************************)
(* ScreenshotCache (vision/vision_service.py)                              *)
(* _cache is a dict: a sequence of entries in insertion order.  Times are  *)
(* in tenths of a second.                                                  *)
(***************************************************************************)
VARIABLES
    sc_cache,        \* ScreenshotCache._cache
    sc_ttl_seconds,  \* ScreenshotCache.ttl_seconds
    sc_max_entries,  \* ScreenshotCache.max_entries
    sc_stats,        \* ScreenshotCache._stats
    sc_now,          \* time.time(), in tenths of a second
    sc_last,         \* the most recent cache call and what it returned
    sc_lock,         \* the owner of ScreenshotCache._lock
    sc_threads,      \* per thread: position in its call and the call's locals
    sc_gets_done,    \* number of get calls that have returned
    sc_failed        \* a call raised KeyError on _cache

shotVars == <<sc_cache, sc_ttl_seconds, sc_max_entries, sc_stats, sc_now, sc_last>>
threadVars == <<sc_lock, sc_threads, sc_gets_done, sc_failed>>
screenshotVars == <<shotVars, threadVars>>

SHOT_DEFAULT_TTL == 20   \* ttl_seconds: float = 2.0
SHOT_MIN_TTL == 1        \* max(0.1, ttl_seconds)
SHOT_MIN_ENTRIES == 1    \* max(1, max_entries)

NoRegion == <<>>
NoShot == [request |-> "", timestamp |-> 0 - 1]

Request(region, quality, max_width, max_height) ==
    [region |-> region, quality |-> quality, max_width |-> max_width,
     max_height |-> max_height]

\* ScreenshotCache._make_key: md5 of the key string, taken to be injective
MakeKey(req) ==
    IF req.region # NoRegion
    THEN "region:" \o ToString(req.region[1]) \o "," \o ToString(req.region[2]) \o ","
           \o ToString(req.region[3]) \o "," \o ToString(req.region[4])
           \o ":q" \o ToString(req.quality)
    ELSE "full:w" \o ToString(req.max_width) \o ":h" \o ToString(req.max_height)
           \o ":q" \o ToString(req.quality)

\* the OptimizedScreenshot captured for a request at time t
Shot(req, t) == [request |-> MakeKey(req), timestamp |-> t]

ShotHasKey(c, key) == \E i \in DOMAIN c : c[i].cache_key = key
ShotEntry(c, key) == c[CHOOSE i \in DOMAIN c : c[i].cache_key = key]
ShotDel(c, key) == LET Keep(e) == e.cache_key # key IN SelectSeq(c, Keep)
ShotKeys(c) == {c[i].cache_key : i \in DOMAIN c}

NoShotEntry == [data |-> NoShot, timestamp |-> 0 - 1, cache_key |-> "", hits |-> 0]
ShotEntryOrNone(c, key) == IF ShotHasKey(c, key) THEN ShotEntry(c, key) ELSE NoShotEntry

Bump(stats, field, n) == [stats EXCEPT ![field] = @ + n]

\* min(self._cache.keys(), key=lambda k: self._cache[k].timestamp) taking the
\* newest entry instead of the oldest
NewestKey(c) ==
    LET i == CHOOSE i \in DOMAIN c :
                /\ \A j \in DOMAIN c : c[j].timestamp <= c[i].timestamp
                /\ \A j \in 1..(i - 1) : c[j].timestamp < c[i].timestamp
    IN c[i].cache_key

\* min(self._cache.keys(), key=lambda k: self._cache[k].timestamp): the first
\* key, in dict order, among those with the smallest timestamp
OldestKey(c) ==
    LET i == CHOOSE i \in DOMAIN c :
                /\ \A j \in DOMAIN c : c[i].timestamp <= c[j].timestamp
                /\ \A j \in 1..(i - 1) : c[i].timestamp < c[j].timestamp
    IN c[i].cache_key

\* the eviction loops of put (limit = max_entries - 1) and set_max_entries
\* (limit = max_entries): evict the oldest entry while more than `limit` remain
RECURSIVE EvictOldest(_, _)
EvictOldest(c, limit) ==
    IF Len(c) > limit THEN EvictOldest(ShotDel(c, OldestKey(c)), limit) ELSE c

\* dict assignment: an existing key keeps its position
ShotStore(c, entry) ==
    IF ShotHasKey(c, entry.cache_key)
    THEN [i \in DOMAIN c |-> IF c[i].cache_key = entry.cache_key THEN entry ELSE c[i]]
    ELSE Append(c, entry)

\* get that serves an entry whatever its age
ShotGetIgnoringAge(c, ttl, stats, t, key) ==
    IF ShotHasKey(c, key)
    THEN [cache |-> [i \in DOMAIN c |-> IF c[i].cache_key = key
                                        THEN [c[i] EXCEPT !.hits = @ + 1] ELSE c[i]],
          stats |-> Bump(stats, "hits", 1),
          result |-> ShotEntry(c, key).data]
    ELSE [cache |-> c, stats |-> Bump(stats, "misses", 1), result |-> NoShot]

\* ScreenshotCache.get: the cache and stats after the call, and the result
ShotGet(c, ttl, stats, t, key) ==
    IF ShotHasKey(c, key)
    THEN LET entry == ShotEntry(c, key)
             age == t - entry.timestamp
         IN IF age <= ttl
            THEN [cache |-> [i \in DOMAIN c |-> IF c[i].cache_key = key
                                                THEN [c[i] EXCEPT !.hits = @ + 1]
                                                ELSE c[i]],
                  stats |-> Bump(stats, "hits", 1),
                  result |-> entry.data]
            ELSE [cache |-> ShotDel(c, key),
                  stats |-> Bump(Bump(stats, "evictions", 1), "misses", 1),
                  result |-> NoShot]
    ELSE [cache |-> c, stats |-> Bump(stats, "misses", 1), result |-> NoShot]

\* ScreenshotCache.put
\* With max_entries < 1 the loop empties the cache and min() then raises
\* ValueError on the empty dict: nothing is stored.
ShotPut(c, max, stats, t, key, data) ==
    IF max < 1
    THEN [cache |-> <<>>, stats |-> Bump(stats, "evictions", Len(c)), raised |-> TRUE]
    ELSE LET kept == EvictOldest(c, max - 1)
         IN [cache |-> ShotStore(kept, [data |-> data, timestamp |-> t,
                                        cache_key |-> key, hits |-> 0]),
             stats |-> Bump(Bump(stats, "evictions", Len(c) - Len(kept)), "stores", 1),
             raised |-> FALSE]

\* ScreenshotCache.set_max_entries
ShotSetMaxEntries(c, stats, n) ==
    LET max == IF n > SHOT_MIN_ENTRIES THEN n ELSE SHOT_MIN_ENTRIES
        kept == EvictOldest(c, max)
    IN [cache |-> kept, max |-> max,
        stats |-> Bump(stats, "evictions", Len(c) - Len(kept))]

\* ScreenshotCache.set_ttl
ShotSetTtl(ttl) == IF ttl > SHOT_MIN_TTL THEN ttl ELSE SHOT_MIN_TTL

(***************************************************************************)
(* Bounds and inputs of the screenshot-cache model                         *)
(***************************************************************************)
ShotInitEntries == 2   \* ScreenshotCache(max_entries=...)
ShotMaxGets == 2       \* cap on the number of get calls
ShotMaxPuts == 3       \* cap on the number of put calls
ShotTick == 10         \* granularity of the clock
ShotMaxTime == 20      \* the clock stops here
ShotThreadMaxTime == 10   \* the clock stops here when threads run
ThreadMaxGets == 2     \* cap on the number of get calls of the threads
ThreadMaxPuts == 2     \* cap on the number of put calls of the threads

ShotRequests == {Request(NoRegion, 75, 1920, 1080), Request(NoRegion, 75, 1280, 720),
                 Request(<<0, 0, 100, 100>>, 75, 1920, 1080)}
ShotTtlInputs == {0, ShotTick}
ShotEntriesInputs == 0..ShotInitEntries

Threads == {"T1", "T2"}
NoThread == ""

\* a call, the entry the cache held for its key when it began, what it
\* returned, the number of entries it evicted, and whether it raised
ShotCall(op, key, found, result, evicted, raised) ==
    [op |-> op, key |-> key, found |-> found, result |-> result,
     evicted |-> evicted, raised |-> raised]

ShotOther(op) == ShotCall(op, "", NoShotEntry, NoShot, 0, FALSE)

IdleThread == [pc |-> "idle", key |-> "", now |-> 0, data |-> NoShot,
               oldest_key |-> "", count |-> 0, arg |-> 0]

\* ScreenshotCache.__init__
ShotInit(capacities) ==
    /\ sc_cache = <<>>
    /\ sc_ttl_seconds = SHOT_DEFAULT_TTL
    /\ sc_max_entries \in capacities
    /\ sc_stats = [hits |-> 0, misses |-> 0, evictions |-> 0, stores |-> 0]
    /\ sc_now = 0
    /\ sc_last = ShotOther("none")
    /\ sc_lock = NoThread
    /\ sc_threads = [t \in Threads |-> IdleThread]
    /\ sc_gets_done = 0
    /\ sc_failed = FALSE

(***************************************************************************)
(* ContextManager: state                                                   *)
(***************************************************************************)
VARIABLES
    cache,          \* SemanticCache._cache
    max_entries,    \* SemanticCache.max_entries
    window_hashes,  \* SemanticCache._window_hashes
    enabled,        \* ContextManager._enabled
    failure_count,  \* ProgressiveDisclosure._failure_count
    now,            \* time.time(), in seconds
    last,           \* the most recent call and what it returned
    mutated         \* keys cached for a window when a state-modifying action
                    \* on that window was processed, and not stored again since

sessionVars == <<cache, max_entries, window_hashes, enabled, failure_count, now,
                 last, mutated>>

CACHEABLE_COMMANDS ==
    {"explore", "explore_window", "get_window_summary", "get_interactive_elements",
     "find_element", "element_exists", "get_element_brief", "get_window_info"}

STATE_MODIFYING_COMMANDS ==
    {"click", "double_click", "right_click", "type", "hotkey", "key_press",
     "smart_click", "smart_type", "vision_click", "close_window",
     "minimize_window", "maximize_window"}

FINGERPRINT_COMMANDS == {"get_window_summary", "explore_window"}

(***************************************************************************)
(* State of the remaining components                                       *)
(***************************************************************************)
VARIABLES
    cm_threads,      \* per request handler: position in its SemanticCache call, locals
    cm_failed,       \* a SemanticCache call raised
    va_request,      \* the last /vision/analyze_or_screenshot request and its setting
    va_response,     \* the response to it
    vision_call,     \* the last call of a VisionService / VisionDetector function
    vision_result,   \* what it returned
    ocr_use_winrt,   \* OptimizedOCR._use_winrt and _winrt_ocr
    ocr_cache,       \* OptimizedOCR._cache, in insertion order
    ocr_now,         \* time.time(), in seconds
    ocr_calls,       \* number of OptimizedOCR calls made
    ocr_call,        \* the last OptimizedOCR call
    ocr_result,      \* what it returned
    ocr_stored_for,  \* history: for each cache key, the crop its entry was read from
    st_pc,           \* position of vision_stream / stream_screenshots
    st_interval,     \* interval, as the frame rate it is the inverse of
    st_start_time,   \* start_time
    st_optimized,    \* optimized
    st_sleep_time,   \* sleep_time of the last completed iteration
    st_steps,        \* what the current iteration has done so far
    st_iterations,   \* number of iterations begun
    ws_state,        \* the WebSocket connection: "none", "open" or "closed"
    ws_frames,       \* the frames sent over it
    cp_response,     \* the response handed to ResponseCompressor.compress
    cp_result,       \* what compress returned
    agent_context,   \* ProgressiveDisclosure._agent_context
    pd_last          \* the last ProgressiveDisclosure call and the levels around it

handlerVars == <<cm_threads, cm_failed>>
analyzeVars == <<va_request, va_response>>

visionVars == <<vision_call, vision_result>>

ocrVars == <<ocr_use_winrt, ocr_cache, ocr_now, ocr_calls, ocr_call, ocr_result,
             ocr_stored_for>>

streamVars == <<st_pc, st_interval, st_start_time, st_optimized, st_sleep_time, st_steps,
                st_iterations, ws_state, ws_frames>>

compressVars == <<cp_response, cp_result>>

disclosureVars == <<agent_context, pd_last>>

\* the components other than the session cache, the screenshot cache and the
\* progressive disclosure
otherVars == <<handlerVars, analyzeVars, visionVars, ocrVars, streamVars, compressVars>>

restVars == <<otherVars, disclosureVars>>

\* what the steps of a request handler leave alone
notHandlerVars == <<max_entries, window_hashes, enabled, failure_count, now, last, mutated,
                    screenshotVars, analyzeVars, visionVars, ocrVars, streamVars,
                    compressVars, disclosureVars>>

\* what the vision endpoints leave alone
notAnalyzeVars == <<sessionVars, screenshotVars, handlerVars, visionVars, ocrVars,
                    streamVars, compressVars, disclosureVars>>

\* what the functions of the vision service leave alone
notVisionVars == <<sessionVars, screenshotVars, handlerVars, analyzeVars, ocrVars,
                   streamVars, compressVars, disclosureVars>>

\* what the calls of OptimizedOCR leave alone
notOcrVars == <<sessionVars, screenshotVars, handlerVars, analyzeVars, visionVars,
                streamVars, compressVars, disclosureVars>>

\* what the streaming loop, which uses the screenshot cache, leaves alone
notStreamVars == <<sessionVars, threadVars, handlerVars, analyzeVars, visionVars, ocrVars,
                   compressVars, disclosureVars>>

\* what ResponseCompressor.compress, a pure function, leaves alone
notCompressVars == <<sessionVars, screenshotVars, handlerVars, analyzeVars, visionVars,
                     ocrVars, streamVars, disclosureVars>>

Handlers == {"H1", "H2"}

IdleHandler == [pc |-> "idle", action |-> "", params |-> [window |-> "", selector |-> ""],
                value |-> PyNone, key |-> <<>>, keys_to_remove |-> <<>>]

HandlersIdle ==
    /\ cm_threads = [h \in Handlers |-> IdleHandler]
    /\ cm_failed = FALSE

NoRequest == [mode |-> "", force_screenshot |-> FALSE, service |-> "", analysis |-> "",
              element_count |-> 0, text_count |-> 0, screenshot |-> ""]
NoResponse == [status |-> ""]

AnalyzeIdle ==
    /\ va_request = NoRequest
    /\ va_response = NoResponse

VisionIdle ==
    /\ vision_call = [op |-> "none"]
    /\ vision_result = [op |-> "none"]

\* a call of a vision function that has not returned yet
Pending == [op |-> "pending"]

NoOcrCall == [op |-> "none"]

\* OptimizedOCR.__init__
OcrInit(winrt) ==
    /\ ocr_use_winrt \in winrt
    /\ ocr_cache = <<>>
    /\ ocr_now = 0
    /\ ocr_calls = 0
    /\ ocr_call = NoOcrCall
    /\ ocr_result = NoOcrCall
    /\ ocr_stored_for = {}

\* no /vision/stream connection yet
StreamIdle ==
    /\ st_pc = "idle"
    /\ st_interval = 0
    /\ st_start_time = 0
    /\ st_optimized = NoShot
    /\ st_sleep_time = [num |-> 0, den |-> 1, elapsed |-> 0]
    /\ st_steps = <<>>
    /\ st_iterations = 0
    /\ ws_state = "none"
    /\ ws_frames = <<>>

Windows == {"W1", "W2"}

NoCompression == [t |-> "nothing", v |-> 0]

\* compress has not been called
CompressIdle ==
    /\ cp_response = NoCompression
    /\ cp_result = NoCompression

NoDisclosureCall == [op |-> "none", window |-> "none", explicit_level |-> "",
                     before |-> [w \in Windows |-> "minimal"]]

\* ProgressiveDisclosure.__init__ (with _failure_count of the session state)
DisclosureInit ==
    /\ agent_context = [w \in Windows |-> 0]
    /\ pd_last = NoDisclosureCall

\* the other components at rest while a vision function is exercised
IdleButVision ==
    HandlersIdle /\ AnalyzeIdle /\ OcrInit({TRUE}) /\ StreamIdle /\ CompressIdle
        /\ DisclosureInit

\* the other components at rest while OptimizedOCR is exercised
IdleButOcr ==
    HandlersIdle /\ AnalyzeIdle /\ VisionIdle /\ StreamIdle /\ CompressIdle
        /\ DisclosureInit

\* the other components at rest while the compressor is exercised
IdleButCompress ==
    HandlersIdle /\ AnalyzeIdle /\ VisionIdle /\ OcrInit({TRUE}) /\ StreamIdle
        /\ DisclosureInit

RestIdle ==
    HandlersIdle /\ AnalyzeIdle /\ VisionIdle /\ OcrInit({TRUE}) /\ StreamIdle
        /\ CompressIdle /\ DisclosureInit

(***************************************************************************)
(* Bounds and inputs of the session-cache model                            *)
(***************************************************************************)
SessionMaxEntries == 2   \* SemanticCache(max_entries=...) of SpecSession
TickSeconds == 5         \* granularity of the clock
MaxTime == 10            \* the clock of SpecSession and SpecManager stops here
MaxFailures == 1         \* cap on ProgressiveDisclosure._failure_count

Params(window, selector) == [window |-> window, selector |-> selector]
NoParams == Params(NoSel, NoSel)

InfoA == PyDict([k \in {"title", "element_count", "bounds"} |->
            CASE k = "title" -> PyStr("Calculator")
              [] k = "element_count" -> PyInt(3)
              [] k = "bounds" -> PyStr("0,0,320,480")])
InfoB == PyDict([k \in {"title", "element_count", "bounds", "key_elements"} |->
            CASE k = "title" -> PyStr("Calculator")
              [] k = "element_count" -> PyInt(4)
              [] k = "bounds" -> PyStr("0,0,320,480")
              [] k = "key_elements" ->
                    PyList(<<PyDict([n \in {"name"} |-> PyStr("OK")])>>)])

RespOkA == PyDict([k \in {"status", "data"} |->
              IF k = "status" THEN PyStr("success") ELSE InfoA])
RespOkB == PyDict([k \in {"status", "data"} |->
              IF k = "status" THEN PyStr("success") ELSE InfoB])
RespOkText == PyDict([k \in {"status", "text", "note"} |->
              CASE k = "status" -> PyStr("success")
                [] k = "text" -> PyStr(Chars(MAX_TEXT_LENGTH + 1))
                [] k = "note" -> PyStr("")])
RespError == PyDict([k \in {"status", "error", "data", "details", "items", "trace"} |->
              CASE k = "status" -> PyStr("error")
                [] k = "error" -> PyStr("ELEMENT_NOT_FOUND")
                [] k = "data" -> PyNone
                [] k = "details" -> PyStr("")
                [] k = "items" -> PyList(Ints(MAX_ELEMENTS_FULL + 1))
                [] k = "trace" -> PyStr(Chars(MAX_TEXT_LENGTH + 1))])
RespErrorNested == PyDict([k \in {"status", "error", "context"} |->
              CASE k = "status" -> PyStr("error")
                [] k = "error" -> PyStr("")
                [] k = "context" ->
                      PyDict([n \in {"window", "children"} |->
                                IF n = "window" THEN PyNone ELSE PyList(<<>>)])])

IsSuccessResponse(response) == DictGet(response, "status", PyNone) = PyStr("success")

NoEntry == [key |-> <<"", NoParams>>, value |-> PyNone, window_hash |-> "",
            created_at |-> 0, ttl_seconds |-> 0]

\* A call and its outcome: the value returned (hit, value), and what the call
\* met and did: the entry the cache held for the key when the call began,
\* whether the key was in `mutated`, and the number of entries invalidated
\* (the call's increment of _stats["invalidations"]).
Call(op, action, params, response, compress, hit, value, entry, stale, invalidated) ==
    [op |-> op, action |-> action, params |-> params, response |-> response,
     compress |-> compress, hit |-> hit, value |-> value, entry |-> entry,
     stale |-> stale, invalidated |-> invalidated]

Other(op) == Call(op, "", NoParams, PyNone, FALSE, FALSE, PyNone, NoEntry, FALSE, 0)

NoCall == Other("none")

EntryOrNone(c, key) == IF HasKey(c, key) THEN EntryOf(c, key) ELSE NoEntry

SessionState(capacity) ==
    /\ cache = <<>>
    /\ max_entries = capacity
    /\ window_hashes = [w \in Windows |-> NoHash]
    /\ enabled = TRUE
    /\ failure_count = [w \in Windows |-> 0]
    /\ now = 0
    /\ last = NoCall
    /\ mutated = {}

SessionInit(capacity) ==
    SessionState(capacity) /\ ShotInit({ShotInitEntries}) /\ RestIdle

(***************************************************************************)
(* ProgressiveDisclosure                                                   *)
(* _agent_context and _failure_count map a window to a number; a window    *)
(* without a key counts as 0, as .get(window_selector, 0) reads it.        *)
(***************************************************************************)
DISCLOSURE_LEVELS == [minimal |-> 0, standard |-> 1, detailed |-> 2]

MAX_LEVEL == 2

NoLevel == ""            \* explicit_level=None

ExplicitLevels == {NoLevel, "minimal", "standard", "detailed", "full"}

DisclosureMaxFailures == 3   \* cap on record_failure calls per window

\* get_disclosure_level reading only _agent_context
GetDisclosureLevelOfRequests(context, failures, window_selector) ==
    LET level == context[window_selector]
        effective_level == IF level <= MAX_LEVEL THEN level ELSE MAX_LEVEL
    IN IF effective_level = 0 THEN "minimal"
       ELSE IF effective_level = 1 THEN "standard"
       ELSE "detailed"

\* ProgressiveDisclosure.get_disclosure_level
GetDisclosureLevel(context, failures, window_selector) ==
    LET level == context[window_selector]
        effective_level == IF level + failures[window_selector] <= MAX_LEVEL
                           THEN level + failures[window_selector]
                           ELSE MAX_LEVEL
    IN IF effective_level = 0 THEN "minimal"
       ELSE IF effective_level = 1 THEN "standard"
       ELSE "detailed"

\* get_disclosure_level of every window
DisclosureLevels(context, failures) ==
    [w \in Windows |-> GetDisclosureLevel(context, failures, w)]

DisclosureCall(op, window_selector, explicit_level) ==
    [op |-> op, window |-> window_selector, explicit_level |-> explicit_level,
     before |-> DisclosureLevels(agent_context, failure_count)]

\* what a ProgressiveDisclosure method leaves alone
notDisclosureVars == <<cache, max_entries, window_hashes, enabled, now, last, mutated,
                       screenshotVars, otherVars>>

\* ProgressiveDisclosure.record_request
RecordRequest(window_selector, explicit_level) ==
    /\ agent_context' =
          IF explicit_level # NoLevel /\ explicit_level \in DOMAIN DISCLOSURE_LEVELS
          THEN [agent_context EXCEPT ![window_selector] = DISCLOSURE_LEVELS[explicit_level]]
          ELSE [agent_context EXCEPT ![window_selector] =
                                        IF @ + 1 <= MAX_LEVEL THEN @ + 1 ELSE MAX_LEVEL]
    /\ pd_last' = DisclosureCall("record_request", window_selector, explicit_level)
    /\ UNCHANGED <<failure_count, notDisclosureVars>>

\* ProgressiveDisclosure.record_failure
RecordFailure(window_selector) ==
    /\ failure_count[window_selector] < DisclosureMaxFailures
    /\ failure_count' = [failure_count EXCEPT ![window_selector] = @ + 1]
    /\ pd_last' = DisclosureCall("record_failure", window_selector, NoLevel)
    /\ UNCHANGED <<agent_context, notDisclosureVars>>

\* ProgressiveDisclosure.reset; NoSel stands for window_selector=None
Reset(window_selector) ==
    /\ IF window_selector # NoSel
       THEN /\ agent_context' = [agent_context EXCEPT ![window_selector] = 0]
            /\ failure_count' = [failure_count EXCEPT ![window_selector] = 0]
       ELSE /\ agent_context' = [w \in Windows |-> 0]
            /\ failure_count' = [w \in Windows |-> 0]
    /\ pd_last' = DisclosureCall("reset", window_selector, NoLevel)
    /\ UNCHANGED notDisclosureVars

(***************************************************************************)
(* ContextManager: operations                                              *)
(***************************************************************************)
\* ContextManager.get_cached
GetCached(action, params) ==
    LET r == IF enabled /\ action \in CACHEABLE_COMMANDS
             THEN CacheGet(cache, window_hashes, now, action, params)
             ELSE [cache |-> cache, hit |-> FALSE, value |-> NoValue, invalidated |-> 0]
        key == NormalizeKey(action, params)
    IN /\ cache' = r.cache
       /\ last' = Call("get_cached", action, params, PyNone, FALSE, r.hit, r.value,
                       EntryOrNone(cache, key), key \in mutated, r.invalidated)
       /\ mutated' = mutated \cap KeysOf(r.cache)
       /\ UNCHANGED <<max_entries, window_hashes, enabled, failure_count, now,
                   screenshotVars, restVars>>

\* process_response caching a response whatever its status
ShouldStoreAnyStatus(action, response) == action \in CACHEABLE_COMMANDS

\* the condition under which process_response caches the response
ShouldStore(action, response) ==
    action \in CACHEABLE_COMMANDS /\ IsSuccessResponse(response)

\* what process_response returns
ProcessResult(isEnabled, response, compress) ==
    IF isEnabled /\ compress THEN Compress(response) ELSE response

\* ContextManager.process_response
ProcessResponse(action, params, response, compress) ==
    LET window_selector == WindowOrSelector(params)
        invalidates == action \in STATE_MODIFYING_COMMANDS /\ window_selector # NoSel
        c1 == IF invalidates
              THEN InvalidateWindow(cache, window_hashes, window_selector)
              ELSE cache
        stores == ShouldStore(action, response)
        c2 == IF stores
              THEN CacheSet(c1, window_hashes, now, max_entries,
                            action, params, response)
              ELSE c1
        hash_selector == SelectorOrWindow(params)
        updates == /\ stores
                   /\ action \in FINGERPRINT_COMMANDS
                   /\ hash_selector # NoSel
                   /\ "data" \in DOMAIN response.v
        u == IF updates
             THEN UpdateWindowHash(c2, window_hashes, hash_selector,
                                   ComputeHash(DictGet(response, "data", PyDict(EmptyMap))))
             ELSE [cache |-> c2, hashes |-> window_hashes]
        fails == IsErrorResponse(response) /\ window_selector # NoSel
        touched == {k \in KeysOf(cache) : WindowOrSelector(k[2]) = window_selector}
        m1 == IF invalidates THEN mutated \cup touched ELSE mutated
        m2 == IF enabled /\ stores THEN m1 \ {NormalizeKey(action, params)} ELSE m1
    IN /\ (enabled /\ fails) => failure_count[window_selector] < MaxFailures
       /\ last' = Call("process_response", action, params, response, compress, FALSE,
                       ProcessResult(enabled, response, compress),
                       EntryOrNone(cache, NormalizeKey(action, params)), FALSE,
                       IF enabled
                       THEN (Len(cache) - Len(c1)) + (Len(c2) - Len(u.cache))
                       ELSE 0)
       /\ IF enabled
          THEN /\ cache' = u.cache
               /\ window_hashes' = u.hashes
               /\ failure_count' = IF fails
                                   THEN [failure_count EXCEPT ![window_selector] = @ + 1]
                                   ELSE failure_count
          ELSE UNCHANGED <<cache, window_hashes, failure_count>>
       /\ pd_last' = IF enabled /\ fails
                     THEN DisclosureCall("record_failure", window_selector, NoLevel)
                     ELSE pd_last
       /\ mutated' = m2 \cap KeysOf(cache')
       /\ UNCHANGED <<max_entries, enabled, now, agent_context, screenshotVars, otherVars>>

\* SemanticCache.invalidate_window called by the /context/invalidate endpoint
InvalidateWindowCall(window) ==
    /\ cache' = InvalidateWindow(cache, window_hashes, window)
    /\ last' = Call("invalidate_window", "", Params(window, NoSel), PyNone, FALSE,
                    FALSE, PyNone, NoEntry, FALSE, Len(cache) - Len(cache'))
    /\ mutated' = mutated \cap KeysOf(cache')
    /\ UNCHANGED <<max_entries, window_hashes, enabled, failure_count, now,
                   screenshotVars, restVars>>

\* ContextManager.enable
Enable ==
    /\ enabled' = TRUE
    /\ last' = Other("enable")
    /\ UNCHANGED <<cache, max_entries, window_hashes, failure_count, now, mutated,
                   screenshotVars, restVars>>

\* ContextManager.disable
Disable ==
    /\ enabled' = FALSE
    /\ last' = Other("disable")
    /\ UNCHANGED <<cache, max_entries, window_hashes, failure_count, now, mutated,
                   screenshotVars, restVars>>

\* ContextManager.clear: SemanticCache.clear and ProgressiveDisclosure.reset
Clear ==
    /\ cache' = <<>>
    /\ window_hashes' = [w \in Windows |-> NoHash]
    /\ failure_count' = [w \in Windows |-> 0]
    /\ agent_context' = [w \in Windows |-> 0]
    /\ pd_last' = DisclosureCall("reset", NoSel, NoLevel)
    /\ last' = Other("clear")
    /\ mutated' = {}
    /\ UNCHANGED <<max_entries, enabled, now, screenshotVars, otherVars>>

\* the passage of time between calls
Tick(horizon) ==
    /\ now + TickSeconds <= horizon
    /\ now' = now + TickSeconds
    /\ last' = Other("tick")
    /\ UNCHANGED <<cache, max_entries, window_hashes, enabled, failure_count, mutated,
                   screenshotVars, restVars>>

vars == <<sessionVars, shotVars, threadVars, restVars>>

(***************************************************************************)
(* SpecSession: lookups, stores, fingerprint updates and invalidations of  *)
(* two windows, the manager enabled throughout.                            *)
(***************************************************************************)
SessionActions == {"explore_window", "element_exists", "click"}
SessionParams == {Params(NoSel, "W1"), Params(NoSel, "W2")}
\* a window enumeration answers with the window's info, any other command
\* with a plain result
SessionResponses(action) ==
    IF action \in FINGERPRINT_COMMANDS THEN {RespOkA, RespOkB} ELSE {RespOkText}

InitSession == SessionInit(SessionMaxEntries)

NextSession ==
    \/ \E a \in SessionActions, p \in SessionParams : GetCached(a, p)
    \/ \E a \in SessionActions, p \in SessionParams :
          \E r \in SessionResponses(a) : ProcessResponse(a, p, r, TRUE)
    \/ \E w \in Windows : InvalidateWindowCall(w)
    \/ Tick(MaxTime)

SpecSession == InitSession /\ [][NextSession]_vars

(***************************************************************************)
(* SpecTtl: one window and the desktop scope, the clock running past the   *)
(* longest TTL of the commands used.                                       *)
(***************************************************************************)
TtlMaxEntries == 1   \* SemanticCache(max_entries=...) of SpecTtl
MaxTimeTtl == 35     \* the clock of SpecTtl stops here

TtlActions == {"explore_window", "element_exists", "get_window_info"}
TtlParams == {NoParams, Params(NoSel, "W1")}

InitTtl == SessionInit(TtlMaxEntries)

NextTtl ==
    \/ \E a \in TtlActions, p \in TtlParams : GetCached(a, p)
    \/ \E a \in TtlActions, p \in TtlParams :
          \E r \in SessionResponses(a) : ProcessResponse(a, p, r, FALSE)
    \/ Tick(MaxTimeTtl)

SpecTtl == InitTtl /\ [][NextTtl]_vars

(***************************************************************************)
(* SpecManager: the whole ContextManager on one window: successes and      *)
(* errors, both values of compress, enable, disable and clear.             *)
(***************************************************************************)
ManagerActions == {"explore_window", "element_exists", "click"}
ManagerParams == {Params(NoSel, "W1")}
ManagerResponses(action) == SessionResponses(action) \cup {RespError, RespErrorNested}

InitManager == SessionInit(SessionMaxEntries)

NextManager ==
    \/ \E a \in ManagerActions, p \in ManagerParams : GetCached(a, p)
    \/ \E a \in ManagerActions, p \in ManagerParams, c \in BOOLEAN :
          \E r \in ManagerResponses(a) : ProcessResponse(a, p, r, c)
    \/ \E w \in {"W1"} : InvalidateWindowCall(w)
    \/ Enable
    \/ Disable
    \/ Clear
    \/ Tick(MaxTime)

SpecManager == InitManager /\ [][NextManager]_vars

(***************************************************************************)
(* SemanticCache called by concurrent request handlers, statement by       *)
(* statement.  The class holds no lock: a handler's next statement runs    *)
(* whenever the interpreter schedules it.                                  *)
(***************************************************************************)
HandlerAt(h, pc) == cm_threads[h].pc = pc
HandlerGoto(h, pc) == [cm_threads EXCEPT ![h].pc = pc]
HandlerReturns(h) == cm_threads' = [cm_threads EXCEPT ![h] = IdleHandler]

\* an exception leaves the call
HandlerRaises(h) ==
    /\ cm_failed' = TRUE
    /\ HandlerReturns(h)

\* get_cached: SemanticCache.get is entered, key = self._normalize_key(...)
BeginCacheGet(h, action, params) ==
    /\ HandlerAt(h, "idle")
    /\ enabled /\ action \in CACHEABLE_COMMANDS
    /\ cm_threads' = [cm_threads EXCEPT ![h] = [IdleHandler EXCEPT
                         !.pc = "get_check", !.action = action, !.params = params,
                         !.key = NormalizeKey(action, params)]]
    /\ UNCHANGED <<cache, cm_failed, notHandlerVars>>

\* get: if key not in self._cache: return (False, None)
CacheGetCheck(h) ==
    /\ HandlerAt(h, "get_check")
    /\ IF HasKey(cache, cm_threads[h].key)
       THEN cm_threads' = HandlerGoto(h, "get_entry")
       ELSE HandlerReturns(h)
    /\ UNCHANGED <<cache, cm_failed, notHandlerVars>>

\* get: entry = self._cache[key]; the expiry and fingerprint tests
CacheGetEntry(h) ==
    /\ HandlerAt(h, "get_entry")
    /\ IF HasKey(cache, cm_threads[h].key)
       THEN LET entry == EntryOf(cache, cm_threads[h].key)
                current_hash == GetWindowHash(window_hashes,
                                              WindowOrSelector(cm_threads[h].params))
            IN /\ cm_threads' =
                     HandlerGoto(h, IF IsExpired(entry, now) THEN "get_del"
                                    ELSE IF /\ entry.window_hash # current_hash
                                            /\ entry.window_hash # "desktop"
                                    THEN "get_del"
                                    ELSE "get_touch")
               /\ UNCHANGED cm_failed
       ELSE HandlerRaises(h)
    /\ UNCHANGED <<cache, notHandlerVars>>

\* get: del self._cache[key]; return (False, None)
CacheGetDel(h) ==
    /\ HandlerAt(h, "get_del")
    /\ IF HasKey(cache, cm_threads[h].key)
       THEN /\ cache' = DelKey(cache, cm_threads[h].key)
            /\ HandlerReturns(h)
            /\ UNCHANGED cm_failed
       ELSE HandlerRaises(h) /\ UNCHANGED cache
    /\ UNCHANGED notHandlerVars

\* get: self._cache.move_to_end(key); return (True, entry.value)
CacheGetTouch(h) ==
    /\ HandlerAt(h, "get_touch")
    /\ IF HasKey(cache, cm_threads[h].key)
       THEN /\ cache' = Append(DelKey(cache, cm_threads[h].key),
                               EntryOf(cache, cm_threads[h].key))
            /\ HandlerReturns(h)
            /\ UNCHANGED cm_failed
       ELSE HandlerRaises(h) /\ UNCHANGED cache
    /\ UNCHANGED notHandlerVars

\* process_response of a successful cacheable response: SemanticCache.set is
\* entered
BeginCacheSet(h, action, params, response) ==
    /\ HandlerAt(h, "idle")
    /\ enabled /\ ShouldStore(action, response)
    /\ action \notin STATE_MODIFYING_COMMANDS \cup FINGERPRINT_COMMANDS
    /\ cm_threads' = [cm_threads EXCEPT ![h] = [IdleHandler EXCEPT
                         !.pc = "set_loop", !.action = action, !.params = params,
                         !.value = response, !.key = NormalizeKey(action, params)]]
    /\ UNCHANGED <<cache, cm_failed, notHandlerVars>>

\* set: while len(self._cache) >= self.max_entries: oldest_key = next(iter(...))
CacheSetLoop(h) ==
    /\ HandlerAt(h, "set_loop")
    /\ cm_threads' = IF Len(cache) >= max_entries /\ Len(cache) > 0
                     THEN [cm_threads EXCEPT ![h].pc = "set_del",
                                             ![h].keys_to_remove = <<cache[1].key>>]
                     ELSE HandlerGoto(h, "set_store")
    /\ UNCHANGED <<cache, cm_failed, notHandlerVars>>

\* set: del self._cache[oldest_key]
CacheSetDel(h) ==
    /\ HandlerAt(h, "set_del")
    /\ IF HasKey(cache, cm_threads[h].keys_to_remove[1])
       THEN /\ cache' = DelKey(cache, cm_threads[h].keys_to_remove[1])
            /\ cm_threads' = HandlerGoto(h, "set_loop")
            /\ UNCHANGED cm_failed
       ELSE HandlerRaises(h) /\ UNCHANGED cache
    /\ UNCHANGED notHandlerVars

\* set: self._cache[key] = CacheEntry(...)
CacheSetStore(h) ==
    LET t == cm_threads[h]
        ttl == IF t.action \in DOMAIN TTL_BY_COMMAND THEN TTL_BY_COMMAND[t.action]
               ELSE DEFAULT_TTL
    IN /\ HandlerAt(h, "set_store")
       /\ cache' = PutEntry(cache, [key |-> t.key, value |-> t.value,
                                    window_hash |-> GetWindowHash(window_hashes,
                                                       WindowOrSelector(t.params)),
                                    created_at |-> now, ttl_seconds |-> ttl])
       /\ HandlerReturns(h)
       /\ UNCHANGED <<cm_failed, notHandlerVars>>

\* process_response of a state-modifying action, and /context/invalidate:
\* invalidate_window collects keys_to_remove
BeginInvalidateWindow(h, window) ==
    LET window_hash == IF window_hashes[window] = NoHash THEN "unknown"
                       ELSE window_hashes[window]
        Hit(e) == e.window_hash = window_hash
        found == SelectSeq(cache, Hit)
    IN /\ HandlerAt(h, "idle")
       /\ cm_threads' = [cm_threads EXCEPT ![h] = [IdleHandler EXCEPT
                            !.pc = "invalidate_del",
                            !.keys_to_remove = [i \in DOMAIN found |-> found[i].key]]]
       /\ UNCHANGED <<cache, cm_failed, notHandlerVars>>

\* invalidate_window: for key in keys_to_remove: del self._cache[key]
InvalidateDel(h) ==
    LET keys == cm_threads[h].keys_to_remove
    IN /\ HandlerAt(h, "invalidate_del")
       /\ IF keys = <<>>
          THEN HandlerReturns(h) /\ UNCHANGED <<cache, cm_failed>>
          ELSE IF HasKey(cache, keys[1])
          THEN /\ cache' = DelKey(cache, keys[1])
               /\ cm_threads' = [cm_threads EXCEPT ![h].keys_to_remove = Tail(keys)]
               /\ UNCHANGED cm_failed
          ELSE HandlerRaises(h) /\ UNCHANGED cache
       /\ UNCHANGED notHandlerVars

\* the passage of time while handlers run
HandlerTick ==
    /\ now + TickSeconds <= MaxTime
    /\ now' = now + TickSeconds
    /\ UNCHANGED <<cache, max_entries, window_hashes, enabled, failure_count, last,
                   mutated, screenshotVars, restVars>>

(***************************************************************************)
(* SpecHandlers: two request handlers on one ContextManager                *)
(***************************************************************************)
HandlersMaxEntries == 1   \* SemanticCache(max_entries=...) of SpecHandlers

HandlerActions == {"element_exists"}
HandlerParams == {Params(NoSel, "W1"), Params(NoSel, "W2")}

InitHandlers ==
    SessionState(HandlersMaxEntries) /\ ShotInit({ShotInitEntries}) /\ RestIdle

NextHandlers ==
    \/ \E h \in Handlers, a \in HandlerActions, p \in HandlerParams :
          BeginCacheGet(h, a, p)
    \/ \E h \in Handlers : CacheGetCheck(h)
    \/ \E h \in Handlers : CacheGetEntry(h)
    \/ \E h \in Handlers : CacheGetDel(h)
    \/ \E h \in Handlers : CacheGetTouch(h)
    \/ \E h \in Handlers, a \in HandlerActions, p \in HandlerParams :
          BeginCacheSet(h, a, p, RespOkText)
    \/ \E h \in Handlers : CacheSetLoop(h)
    \/ \E h \in Handlers : CacheSetDel(h)
    \/ \E h \in Handlers : CacheSetStore(h)
    \/ \E h \in Handlers, w \in Windows : BeginInvalidateWindow(h, w)
    \/ \E h \in Handlers : InvalidateDel(h)
    \/ HandlerTick

SpecHandlers == InitHandlers /\ [][NextHandlers]_vars

(***************************************************************************)
(* /vision/analyze_or_screenshot (bridge.py)                               *)
(* A request meets a setting: VisionConfig.mode, whether the vision        *)
(* service can be built (get_vision_service raises when the detector model *)
(* is missing), whether analyze_screen raises or how many elements and     *)
(* text regions it reports, and whether optimize_screenshot raises.        *)
(***************************************************************************)
FALLBACK_MIN_ELEMENTS == 3   \* element_count < 3
FALLBACK_MIN_TEXT == 5       \* text_count < 5
NoReason == "<absent>"

AnalyzeRequest(mode, force_screenshot, service, analysis, element_count, text_count,
               screenshot) ==
    [mode |-> mode, force_screenshot |-> force_screenshot, service |-> service,
     analysis |-> analysis, element_count |-> element_count, text_count |-> text_count,
     screenshot |-> screenshot]

\* success_response("vision_analyze_or_screenshot", **result)
AnalyzeSuccess(req, analysed, fallback_reason, screenshot) ==
    [status |-> "success", mode |-> req.mode, analysed |-> analysed,
     element_count |-> IF analysed THEN req.element_count ELSE 0,
     text_count |-> IF analysed THEN req.text_count ELSE 0,
     fallback_reason |-> fallback_reason, screenshot |-> screenshot]

\* error_response("VISION_ANALYZE_OR_SCREENSHOT_FAILED", str(e))
AnalyzeError(req, message) ==
    [status |-> "error", mode |-> req.mode, analysed |-> FALSE, element_count |-> 0,
     text_count |-> 0, fallback_reason |-> NoReason, screenshot |-> FALSE,
     message |-> message]

LimitedReason(req) ==
    "Limited local results: " \o ToString(req.element_count) \o " elements, "
        \o ToString(req.text_count) \o " text regions"

FailedReason(req) == "Local analysis failed: " \o req.analysis

\* the response of vision_analyze_or_screenshot to a request in its setting
AnalyzeOrScreenshot(req) ==
    LET shot == req.screenshot = "ok"
        limited == /\ req.element_count < FALLBACK_MIN_ELEMENTS
                   /\ req.text_count < FALLBACK_MIN_TEXT
    IN IF req.mode = "agent"
       THEN IF shot THEN AnalyzeSuccess(req, FALSE, NoReason, TRUE)
            ELSE AnalyzeError(req, req.screenshot)
       ELSE IF req.service # "ok" THEN AnalyzeError(req, req.service)
       ELSE IF req.mode = "local"
       THEN IF req.analysis # "ok" THEN AnalyzeError(req, req.analysis)
            ELSE IF ~req.force_screenshot THEN AnalyzeSuccess(req, TRUE, NoReason, FALSE)
            ELSE IF shot THEN AnalyzeSuccess(req, TRUE, NoReason, TRUE)
            ELSE AnalyzeError(req, req.screenshot)
       ELSE \* auto mode
            IF req.analysis # "ok"
            THEN IF shot THEN AnalyzeSuccess(req, FALSE, FailedReason(req), TRUE)
                 ELSE AnalyzeError(req, req.screenshot)
            ELSE IF limited \/ req.force_screenshot
            THEN \* optimize_screenshot raising inside the try block is handled
                 \* as a failure of the local analysis, and raises again there
                 IF shot
                 THEN AnalyzeSuccess(req, TRUE,
                                     IF limited THEN LimitedReason(req) ELSE NoReason,
                                     TRUE)
                 ELSE AnalyzeError(req, req.screenshot)
            ELSE AnalyzeSuccess(req, TRUE, NoReason, FALSE)

\* vision_analyze_or_screenshot
VisionAnalyzeOrScreenshot(req) ==
    /\ va_request' = req
    /\ va_response' = AnalyzeOrScreenshot(req)
    /\ UNCHANGED notAnalyzeVars

(***************************************************************************)
(* SpecAnalyze: requests to /vision/analyze_or_screenshot in every setting *)
(***************************************************************************)
MaxElements == 3     \* analyses report 0..MaxElements elements
MaxTextRegions == 5  \* analyses report 0..MaxTextRegions text regions

AnalyzeModes == {"agent", "local", "auto"}
ServiceOutcomes == {"ok", "OmniParser model not found"}
AnalysisOutcomes == {"ok", "inference failed"}
ScreenshotOutcomes == {"ok", "encode failed"}

AnalyzeRequests ==
    {AnalyzeRequest(m, f, sv, a, IF a = "ok" THEN e ELSE 0, IF a = "ok" THEN t ELSE 0, sh) :
        m \in AnalyzeModes, f \in BOOLEAN, sv \in ServiceOutcomes,
        a \in AnalysisOutcomes, e \in 0..MaxElements, t \in 0..MaxTextRegions,
        sh \in ScreenshotOutcomes}

InitAnalyze ==
    SessionState(SessionMaxEntries) /\ ShotInit({ShotInitEntries}) /\ RestIdle

NextAnalyze == \E req \in AnalyzeRequests : VisionAnalyzeOrScreenshot(req)

SpecAnalyze == InitAnalyze /\ [][NextAnalyze]_vars

(***************************************************************************)
(* Geometry of detections and text regions (detector.py, ocr.py)           *)
(* A box is [x, y, width, height] with (x, y) its centre.  Confidences are *)
(* in hundredths.  A ratio a/b of the code is kept as the pair (a, b) and  *)
(* compared by cross-multiplication.                                       *)
(***************************************************************************)
Max2(a, b) == IF a >= b THEN a ELSE b
Min2(a, b) == IF a <= b THEN a ELSE b

\* Detection.bounds, TextRegion.bounds, UIElement.bounds
Bounds(r) ==
    [left |-> r.x - (r.width \div 2), top |-> r.y - (r.height \div 2),
     right |-> r.x + (r.width \div 2), bottom |-> r.y + (r.height \div 2)]

BoundsArea(r) ==
    (Bounds(r).right - Bounds(r).left) * (Bounds(r).bottom - Bounds(r).top)

\* the intersection computed by _calculate_overlap and _calculate_iou
Intersection(a, b) ==
    LET left == Max2(Bounds(a).left, Bounds(b).left)
        top == Max2(Bounds(a).top, Bounds(b).top)
        right == Min2(Bounds(a).right, Bounds(b).right)
        bottom == Min2(Bounds(a).bottom, Bounds(b).bottom)
    IN IF left >= right \/ top >= bottom THEN 0
       ELSE (right - left) * (bottom - top)

(***************************************************************************)
(* VisionService.find_element_by_text                                      *)
(***************************************************************************)
OVERLAP_NUM == 1   \* overlap > 0.5, as the ratio 1/2
OVERLAP_DEN == 2

NoElement == [element_type |-> "none"]

LowerChar(c) ==
    CASE c = "O" -> "o" [] c = "K" -> "k" [] c = "C" -> "c" [] OTHER -> c

\* str.lower
RECURSIVE Lower(_)
Lower(str) ==
    IF str = "" THEN "" ELSE LowerChar(SubSeq(str, 1, 1)) \o Lower(SubSeq(str, 2, Len(str)))

\* search_text in r.text
Contains(str, sub) ==
    \E i \in 1..(Len(str) - Len(sub) + 1) : SubSeq(str, i, i + Len(sub) - 1) = sub

\* WindowsOCR.find_text, applied to the regions that recognize returns
FindText(regions, search_text, case_sensitive) ==
    LET Match(r) == IF case_sensitive THEN Contains(r.text, search_text)
                    ELSE Contains(Lower(r.text), Lower(search_text))
    IN SelectSeq(regions, Match)

\* _calculate_overlap as the ratio num/den (0/1 when there is no overlap)
CalculateOverlap(text_region, detection) ==
    LET inter == Intersection(text_region, detection)
        text_area == BoundsArea(text_region)
    IN IF inter = 0 \/ text_area <= 0 THEN [num |-> 0, den |-> 1]
       ELSE [num |-> inter, den |-> text_area]

\* a score that ignores the detection's confidence
PairScoreOverlapOnly(text_region, detection) ==
    CalculateOverlap(text_region, detection)

\* score = det.confidence * overlap
PairScore(text_region, detection) ==
    [num |-> detection.confidence * CalculateOverlap(text_region, detection).num,
     den |-> CalculateOverlap(text_region, detection).den]

TextElement(text_region) ==
    [x |-> text_region.x, y |-> text_region.y, width |-> text_region.width,
     height |-> text_region.height, confidence |-> text_region.confidence,
     text |-> text_region.text, element_type |-> "text"]

ButtonElement(text_region, detection) ==
    [x |-> text_region.x, y |-> text_region.y, width |-> text_region.width,
     height |-> text_region.height, confidence |-> detection.confidence,
     text |-> text_region.text, element_type |-> "button"]

\* the two nested loops, from text region i and detection j on
RECURSIVE BestMatch(_, _, _, _, _)
BestMatch(text_regions, detections, i, j, best) ==
    IF i > Len(text_regions) THEN best.match
    ELSE IF j > Len(detections) THEN BestMatch(text_regions, detections, i + 1, 1, best)
    ELSE LET overlap == CalculateOverlap(text_regions[i], detections[j])
             score == PairScore(text_regions[i], detections[j])
         IN IF /\ overlap.num * OVERLAP_DEN > OVERLAP_NUM * overlap.den
               /\ score.num * best.den > best.num * score.den
            THEN BestMatch(text_regions, detections, i, j + 1,
                           [match |-> ButtonElement(text_regions[i], detections[j]),
                            num |-> score.num, den |-> score.den])
            ELSE BestMatch(text_regions, detections, i, j + 1, best)

\* find_element_by_text: the element returned and whether detection ran
FindElementByTextResult(regions, detections, text, case_sensitive) ==
    LET text_regions == FindText(regions, text, case_sensitive)
    IN IF text_regions = <<>>
       THEN [op |-> "find_element_by_text", element |-> NoElement, detected |-> FALSE]
       ELSE [op |-> "find_element_by_text",
             element |-> BestMatch(text_regions, detections, 1, 1,
                                   [match |-> TextElement(text_regions[1]),
                                    num |-> 0, den |-> 1]),
             detected |-> TRUE]

\* VisionService.find_element_by_text on an image whose OCR yields `regions`
\* and whose detection yields `detections`
FindElementByText ==
    /\ vision_call.op = "find_element_by_text"
    /\ vision_result = Pending
    /\ vision_result' = FindElementByTextResult(vision_call.regions, vision_call.detections,
                                                vision_call.text, vision_call.case_sensitive)
    /\ UNCHANGED <<vision_call, notVisionVars>>

(***************************************************************************)
(* SpecFindText: find_element_by_text on images with up to MaxRegions text *)
(* regions and up to MaxDetections detected elements                       *)
(***************************************************************************)
MaxRegions == 2
MaxDetections == 2

RegionChoices ==
    {[text |-> t, x |-> b[1], y |-> 4, width |-> b[2], height |-> 4, confidence |-> 100] :
        t \in {"OK", "Cancel"}, b \in {<<4, 4>>, <<8, 3>>}}

DetectionChoices ==
    {[x |-> b[1], y |-> 4, width |-> b[2], height |-> 4, confidence |-> c,
      element_type |-> "icon"] : b \in {<<4, 4>>, <<5, 4>>, <<8, 8>>}, c \in {20, 60}}

SeqsUpTo(S, n) == UNION {[1..m -> S] : m \in 0..n}

InitFindText ==
    /\ SessionState(SessionMaxEntries) /\ ShotInit({ShotInitEntries}) /\ IdleButVision
    /\ vision_call \in [op : {"find_element_by_text"},
                         regions : SeqsUpTo(RegionChoices, MaxRegions),
                         detections : SeqsUpTo(DetectionChoices, MaxDetections),
                         text : {"ok"}, case_sensitive : BOOLEAN]
    /\ vision_result = Pending

NextFindText == FindElementByText

SpecFindText == InitFindText /\ [][NextFindText]_vars

(***************************************************************************)
(* Non-maximum suppression (detector.py, vision_service.py)                *)
(***************************************************************************)
CONFIDENCE_THRESHOLD == 15   \* confidence_threshold: float = 0.15
IOU_NUM == 1                 \* iou_threshold = 0.5, as the ratio 1/2
IOU_DEN == 2

\* VisionDetector._calculate_iou as the ratio num/den
CalculateIou(det1, det2) ==
    LET inter == Intersection(det1, det2)
        union == BoundsArea(det1) + BoundsArea(det2) - inter
    IN IF inter = 0 \/ union <= 0 THEN [num |-> 0, den |-> 1]
       ELSE [num |-> inter, den |-> union]

\* a suppression test that never suppresses
SuppressesNever(det, other) == FALSE

\* iou > iou_threshold
Suppresses(det, other) ==
    CalculateIou(det, other).num * IOU_DEN > IOU_NUM * CalculateIou(det, other).den

\* the suppression loop shared by _apply_nms and _deduplicate_detections,
\* from index i on
RECURSIVE NmsLoop(_, _, _, _)
NmsLoop(detections, i, suppressed, kept) ==
    IF i > Len(detections) THEN kept
    ELSE IF i \in suppressed THEN NmsLoop(detections, i + 1, suppressed, kept)
    ELSE NmsLoop(detections, i + 1,
                 suppressed \cup {j \in (i + 1)..Len(detections) :
                                    j \notin suppressed
                                    /\ Suppresses(detections[i], detections[j])},
                 Append(kept, detections[i]))

\* a suppression loop in which a kept box is compared with its successor only
RECURSIVE NmsAdjacentLoop(_, _, _, _)
NmsAdjacentLoop(detections, i, suppressed, kept) ==
    IF i > Len(detections) THEN kept
    ELSE IF i \in suppressed THEN NmsAdjacentLoop(detections, i + 1, suppressed, kept)
    ELSE NmsAdjacentLoop(detections, i + 1,
                         suppressed \cup {j \in {i + 1} \cap DOMAIN detections :
                                            Suppresses(detections[i], detections[j])},
                         Append(kept, detections[i]))

ApplyNmsAdjacent(detections) == NmsAdjacentLoop(detections, 1, {}, <<>>)

\* VisionDetector._apply_nms
ApplyNms(detections) ==
    IF Len(detections) <= 1 THEN detections ELSE NmsLoop(detections, 1, {}, <<>>)

\* list.sort(key=confidence, reverse=True): stable, by insertion
RECURSIVE InsertByConfidence(_, _)
InsertByConfidence(sorted, d) ==
    IF sorted = <<>> THEN <<d>>
    ELSE IF Head(sorted).confidence >= d.confidence
    THEN <<Head(sorted)>> \o InsertByConfidence(Tail(sorted), d)
    ELSE <<d>> \o sorted

RECURSIVE SortByConfidence(_)
SortByConfidence(detections) ==
    IF detections = <<>> THEN <<>>
    ELSE InsertByConfidence(SortByConfidence(SubSeq(detections, 1, Len(detections) - 1)),
                            detections[Len(detections)])

\* the candidates _postprocess_output lets through: confidence at or above
\* the threshold and a centre that is not in the padding
IsCandidate(d) == d.confidence >= CONFIDENCE_THRESHOLD /\ d.x >= 0 /\ d.y >= 0

\* VisionDetector._postprocess_output, on predictions already scaled to the
\* original resolution
PostprocessOutput(predictions) ==
    ApplyNms(SortByConfidence(SelectSeq(predictions, IsCandidate)))

\* VisionService._deduplicate_detections
DeduplicateDetections(detections) ==
    IF Len(detections) <= 1 THEN detections
    ELSE NmsLoop(SortByConfidence(detections), 1, {}, <<>>)

NmsFunction(op, detections) ==
    CASE op = "postprocess_output" -> PostprocessOutput(detections)
      [] op = "apply_nms" -> ApplyNms(detections)
      [] op = "deduplicate_detections" -> DeduplicateDetections(detections)

\* one of the three functions is applied to the list at hand
ApplySuppression ==
    /\ vision_call.op \in {"postprocess_output", "apply_nms", "deduplicate_detections"}
    /\ vision_result = Pending
    /\ vision_result' = [op |-> vision_call.op,
                         detections |-> NmsFunction(vision_call.op, vision_call.detections)]
    /\ UNCHANGED <<vision_call, notVisionVars>>

\* the list returned is passed to _apply_nms or _deduplicate_detections again
ReapplySuppression(op) ==
    /\ vision_call.op \in {"postprocess_output", "apply_nms", "deduplicate_detections"}
    /\ vision_result # Pending
    /\ vision_call.source = "detector"
    /\ vision_call.op = "deduplicate_detections" => op = "deduplicate_detections"
    /\ vision_call' = [op |-> op, detections |-> vision_result.detections,
                       source |-> vision_call.op]
    /\ vision_result' = Pending
    /\ UNCHANGED notVisionVars

(***************************************************************************)
(* SpecNms: suppression of lists of up to MaxBoxes boxes, and of its own   *)
(* output                                                                  *)
(***************************************************************************)
MaxBoxes == 3

BoxChoices ==
    {[x |-> b[1], y |-> 4, width |-> b[2], height |-> 4, confidence |-> c] :
        b \in {<<4, 4>>, <<5, 4>>, <<6, 4>>, <<0 - 1, 4>>}, c \in {10, 20, 60}}

InitNms ==
    /\ SessionState(SessionMaxEntries) /\ ShotInit({ShotInitEntries}) /\ IdleButVision
    /\ vision_call \in [op : {"postprocess_output", "apply_nms", "deduplicate_detections"},
                        detections : SeqsUpTo(BoxChoices, MaxBoxes),
                        source : {"detector"}]
    /\ vision_result = Pending

NextNms ==
    \/ ApplySuppression
    \/ \E op \in {"apply_nms", "deduplicate_detections"} : ReapplySuppression(op)

SpecNms == InitNms /\ [][NextNms]_vars

(***************************************************************************)
(* Tiled detection (vision_service.py)                                     *)
(***************************************************************************)
TILE_SIZE == 640
TILE_OVERLAP == 64
MIN_TILE == 100     \* tiles narrower or shorter than this are skipped

\* range(0, stop, step) as a sequence
RECURSIVE RangeFrom(_, _, _)
RangeFrom(start, stop, step) ==
    IF start >= stop THEN <<>> ELSE <<start>> \o RangeFrom(start + step, stop, step)

\* image.crop(...) followed by inference on the tile: the predictions the
\* image holds whose centre lies in the tile, in the tile's coordinates
TilePredictions(image, left, top, right, bottom) ==
    LET inside(d) == d.x >= left /\ d.x < right /\ d.y >= top /\ d.y < bottom
        sel == SelectSeq(image.predictions, inside)
    IN [i \in DOMAIN sel |-> [sel[i] EXCEPT !.x = @ - left, !.y = @ - top]]

\* VisionDetector.detect on the pixels of one rectangle of the image
Detect(image, left, top, right, bottom) ==
    PostprocessOutput(TilePredictions(image, left, top, right, bottom))

\* the body of the two loops of _detect_with_tiling for the tile at (x, y)
TileDetections(image, x, y) ==
    LET tile_right == Min2(x + TILE_SIZE, image.width)
        tile_bottom == Min2(y + TILE_SIZE, image.height)
        tile_detections == Detect(image, x, y, tile_right, tile_bottom)
    IN IF tile_right - x < MIN_TILE \/ tile_bottom - y < MIN_TILE THEN <<>>
       ELSE [i \in DOMAIN tile_detections |->
                [tile_detections[i] EXCEPT !.x = @ + x, !.y = @ + y]]

RECURSIVE TileRow(_, _, _)
TileRow(image, xs, y) ==
    IF xs = <<>> THEN <<>>
    ELSE TileDetections(image, Head(xs), y) \o TileRow(image, Tail(xs), y)

RECURSIVE TileRows(_, _, _)
TileRows(image, xs, ys) ==
    IF ys = <<>> THEN <<>>
    ELSE TileRow(image, xs, Head(ys)) \o TileRows(image, xs, Tail(ys))

\* the tile at (x, y): tile_left, tile_top, tile_right, tile_bottom
TileAt(image, x, y) ==
    [left |-> x, top |-> y,
     right |-> Min2(x + TILE_SIZE, image.width),
     bottom |-> Min2(y + TILE_SIZE, image.height)]

\* the positions the two loops visit
TilePositions(image) ==
    LET xs == RangeFrom(0, image.width, TILE_SIZE - TILE_OVERLAP)
        ys == RangeFrom(0, image.height, TILE_SIZE - TILE_OVERLAP)
    IN {<<xs[i], ys[j]>> : i \in DOMAIN xs, j \in DOMAIN ys}

\* the tiles cropped and passed to detector.detect: those not skipped
TilesDetected(image) ==
    {t \in {TileAt(image, p[1], p[2]) : p \in TilePositions(image)} :
        ~(t.right - t.left < MIN_TILE \/ t.bottom - t.top < MIN_TILE)}

\* VisionService._detect_with_tiling
DetectWithTilingResult(image) ==
    LET step == TILE_SIZE - TILE_OVERLAP
    IN DeduplicateDetections(TileRows(image, RangeFrom(0, image.width, step),
                                      RangeFrom(0, image.height, step)))

DetectWithTiling ==
    /\ vision_call.op = "detect_with_tiling"
    /\ vision_result = Pending
    /\ vision_result' = [op |-> "detect_with_tiling",
                         detections |-> DetectWithTilingResult(vision_call.image),
                         tiles |-> TilesDetected(vision_call.image)]
    /\ UNCHANGED <<vision_call, notVisionVars>>

(***************************************************************************)
(* SpecTiling: images around the tile sizes with up to MaxPredictions      *)
(* boxes                                                                   *)
(***************************************************************************)
MaxPredictions == 2

ImageWidths == {50, 300, 600, 650, 700}
ImageHeights == {50, 300, 639}

PredictionChoices ==
    {[x |-> b, y |-> 4, width |-> 4, height |-> 4, confidence |-> c] :
        b \in {4, 5, 600}, c \in {20, 60}}

\* the predictions lie inside the image
Images ==
    {im \in [width : ImageWidths, height : ImageHeights,
             predictions : SeqsUpTo(PredictionChoices, MaxPredictions)] :
        \A i \in DOMAIN im.predictions : im.predictions[i].x < im.width}

InitTiling ==
    /\ SessionState(SessionMaxEntries) /\ ShotInit({ShotInitEntries}) /\ IdleButVision
    /\ vision_call \in [op : {"detect_with_tiling"}, image : Images]
    /\ vision_result = Pending

NextTiling == DetectWithTiling

SpecTiling == InitTiling /\ [][NextTiling]_vars

(***************************************************************************)
(* OptimizedOCR (vision/ocr_optimized.py, vision/ocr_native.py)            *)
(* A list returned by recognize and stored in _cache is one object: what   *)
(* a caller does to its TextRegions is done to the cached ones.            *)
(***************************************************************************)
OCR_CACHE_TTL == 2       \* cache_ttl: float = 2.0
OCR_CACHE_LIMIT == 50    \* if len(self._cache) > 50
OCR_CACHE_DROP == 10     \* sorted_keys[:10]
HASH_SAMPLE == 100       \* _get_image_hash samples the top-left 100 x 100 pixels

\* image.crop((x, y, x + width, y + height))
Crop(image, x, y, width, height) ==
    [image |-> image, x |-> x, y |-> y, width |-> width, height |-> height]

\* the image itself, as handed to recognize
Whole(image) == Crop(image, 0, 0, image.width, image.height)

\* OptimizedOCR._get_image_hash: md5 of the sampled pixels, taken to be
\* injective on them; distinct images differ in every pixel
GetImageHash(crop) ==
    <<crop.image.id, crop.x, crop.y, Min2(HASH_SAMPLE, crop.width),
      Min2(HASH_SAMPLE, crop.height)>>

\* the words an engine reads in the crop, as TextRegions in the crop's frame
\* (x = left + width // 2, confidence 1.0)
EngineRegions(crop) ==
    LET visible(w) == /\ w.left >= crop.x /\ w.left + w.width <= crop.x + crop.width
                      /\ w.top >= crop.y /\ w.top + w.height <= crop.y + crop.height
        words == SelectSeq(crop.image.words, visible)
    IN [i \in DOMAIN words |->
          [text |-> words[i].text,
           x |-> words[i].left - crop.x + words[i].width \div 2,
           y |-> words[i].top - crop.y + words[i].height \div 2,
           width |-> words[i].width, height |-> words[i].height, confidence |-> 100]]

OcrHasKey(c, key) == \E i \in DOMAIN c : c[i].key = key
OcrEntry(c, key) == c[CHOOSE i \in DOMAIN c : c[i].key = key]
OcrDel(c, key) == LET Keep(e) == e.key # key IN SelectSeq(c, Keep)
OcrPut(c, entry) ==
    IF OcrHasKey(c, entry.key)
    THEN [i \in DOMAIN c |-> IF c[i].key = entry.key THEN entry ELSE c[i]]
    ELSE Append(c, entry)

\* OptimizedOCR._check_cache
CheckCache(c, t, key) ==
    IF OcrHasKey(c, key)
    THEN IF t - OcrEntry(c, key).timestamp < OCR_CACHE_TTL
         THEN [cache |-> c, hit |-> TRUE, regions |-> OcrEntry(c, key).regions]
         ELSE [cache |-> OcrDel(c, key), hit |-> FALSE, regions |-> <<>>]
    ELSE [cache |-> c, hit |-> FALSE, regions |-> <<>>]

\* the n entries stored last are deleted instead
RECURSIVE OcrDropNewest(_, _)
OcrDropNewest(c, n) ==
    IF n = 0 \/ c = <<>> THEN c
    ELSE LET i == CHOOSE i \in DOMAIN c :
                     \A j \in DOMAIN c : c[i].timestamp >= c[j].timestamp
         IN OcrDropNewest(OcrDel(c, c[i].key), n - 1)

\* for key in sorted_keys[:n]: del self._cache[key]
RECURSIVE OcrDropOldest(_, _)
OcrDropOldest(c, n) ==
    IF n = 0 \/ c = <<>> THEN c
    ELSE LET i == CHOOSE i \in DOMAIN c :
                     /\ \A j \in DOMAIN c : c[i].timestamp <= c[j].timestamp
                     /\ \A j \in 1..(i - 1) : c[i].timestamp < c[j].timestamp
         IN OcrDropOldest(OcrDel(c, c[i].key), n - 1)

\* OptimizedOCR._store_cache
StoreCache(c, t, key, regions) ==
    LET stored == OcrPut(c, [key |-> key, regions |-> regions, timestamp |-> t])
    IN IF Len(stored) > OCR_CACHE_LIMIT THEN OcrDropOldest(stored, OCR_CACHE_DROP)
       ELSE stored

\* what one engine call does: the regions, whether it raised
EngineOutcome(regions, raised) == [regions |-> regions, raised |-> raised]

\* WinRTOCR.recognize: recognize_async returns [] for every exception inside
\* it ("error"); the event-loop wrapper can raise ("raises")
WinRTRecognize(crop, native) ==
    CASE native = "ok" -> EngineOutcome(EngineRegions(crop), FALSE)
      [] native = "error" -> EngineOutcome(<<>>, FALSE)
      [] native = "raises" -> EngineOutcome(<<>>, TRUE)

\* the return value of recognize: the regions, whether it raised instead, the
\* engines it called, the cache afterwards, and whether the list returned is
\* the one held by the cache
OcrReturn(regions, raised, tried, c, shared) ==
    [regions |-> regions, raised |-> raised, tried |-> tried, cache |-> c,
     shared |-> shared]

\* OptimizedOCR._recognize_powershell: subprocess.run raises when powershell
\* cannot be started ("not_found") or exceeds the timeout ("timeout"), and
\* there is no except clause; a non-zero return code, no output and output
\* that is not JSON ("no_output") return []
RecognizePowershell(c, t, crop, use_cache, key, powershell, tried) ==
    LET regions == EngineRegions(crop)
    IN CASE powershell \in {"not_found", "timeout"} ->
               OcrReturn(<<>>, TRUE, Append(tried, "powershell"), c, FALSE)
         [] powershell = "no_output" \/ (powershell = "ok" /\ regions = <<>>) ->
               OcrReturn(<<>>, FALSE, Append(tried, "powershell"), c, FALSE)
         [] OTHER ->
               IF use_cache
               THEN OcrReturn(regions, FALSE, Append(tried, "powershell"),
                              StoreCache(c, t, key, regions), TRUE)
               ELSE OcrReturn(regions, FALSE, Append(tried, "powershell"), c, FALSE)

\* OptimizedOCR.recognize
Recognize(c, t, crop, use_cache, use_winrt, native, powershell) ==
    LET key == GetImageHash(crop)
        cached == IF use_cache THEN CheckCache(c, t, key)
                  ELSE [cache |-> c, hit |-> FALSE, regions |-> <<>>]
        winrt == WinRTRecognize(crop, native)
    IN IF cached.hit THEN OcrReturn(cached.regions, FALSE, <<>>, cached.cache, TRUE)
       ELSE IF use_winrt /\ ~winrt.raised
       THEN IF use_cache
            THEN OcrReturn(winrt.regions, FALSE, <<"winrt">>,
                           StoreCache(cached.cache, t, key, winrt.regions), TRUE)
            ELSE OcrReturn(winrt.regions, FALSE, <<"winrt">>, cached.cache, FALSE)
       ELSE RecognizePowershell(cached.cache, t, crop, use_cache, key, powershell,
                                IF use_winrt THEN <<"winrt">> ELSE <<>>)

\* r.x += x; r.y += y for every region of the list
Translate(regions, x, y) ==
    [i \in DOMAIN regions |-> [regions[i] EXCEPT !.x = @ + x, !.y = @ + y]]

\* OptimizedOCR.recognize_region: the regions are translated in place, so in
\* the cache as well when the list is the cached one
RecognizeRegion(c, t, image, x, y, width, height, use_winrt, native, powershell) ==
    LET crop == Crop(image, x, y, width, height)
        key == GetImageHash(crop)
        r == Recognize(c, t, crop, TRUE, use_winrt, native, powershell)
        moved == Translate(r.regions, x, y)
    IN IF r.raised THEN r
       ELSE [r EXCEPT !.regions = moved,
                      !.cache = IF r.shared /\ OcrHasKey(r.cache, key)
                                THEN OcrPut(r.cache, [OcrEntry(r.cache, key)
                                                        EXCEPT !.regions = moved])
                                ELSE r.cache]

(***************************************************************************)
(* SpecOcr: up to OcrMaxCalls calls of recognize and recognize_region      *)
(***************************************************************************)
OcrMaxCalls == 3
OcrMaxTime == 2

OcrImages ==
    {[id |-> "A", width |-> 200, height |-> 120,
      words |-> <<[text |-> "OK", left |-> 25, top |-> 17, width |-> 10, height |-> 6],
                  [text |-> "Cancel", left |-> 120, top |-> 17, width |-> 20,
                   height |-> 6]>>]}

OcrRegions == {<<0, 0, 100, 100>>, <<0, 0, 150, 100>>, <<10, 10, 60, 60>>, <<60, 60, 40, 40>>}

NativeOutcomes == {"ok", "error", "raises"}
PowershellOutcomes == {"ok", "no_output", "not_found", "timeout"}

\* the engines behave one way per call; an engine that is not reached has
\* no outcome
OutcomesFor(use_winrt) ==
    {o \in [native : NativeOutcomes \cup {"unused"},
            powershell : PowershellOutcomes \cup {"unused"}] :
        /\ o.native = "unused" <=> ~use_winrt
        /\ o.powershell = "unused" <=> o.native \in {"ok", "error"}}

OcrReturned(op, r) ==
    [op |-> op, regions |-> r.regions, raised |-> r.raised, tried |-> r.tried]

\* the call stored what an engine read in the crop: it returned the list the
\* cache holds and did not find it there
OcrStoredFor(stored_for, crop, r) ==
    IF ~r.raised /\ r.shared /\ r.tried # <<>>
    THEN {p \in stored_for : p[1] # GetImageHash(crop)} \cup {<<GetImageHash(crop), crop>>}
    ELSE stored_for

OcrRecognize(image, use_cache, o) ==
    /\ ocr_calls < OcrMaxCalls
    /\ LET r == Recognize(ocr_cache, ocr_now, Whole(image), use_cache, ocr_use_winrt,
                          o.native, o.powershell)
       IN /\ ocr_cache' = r.cache
          /\ ocr_result' = OcrReturned("recognize", r)
          /\ ocr_stored_for' = OcrStoredFor(ocr_stored_for, Whole(image), r)
    /\ ocr_call' = [op |-> "recognize", image |-> image, region |-> <<>>,
                    use_cache |-> use_cache, native |-> o.native,
                    powershell |-> o.powershell]
    /\ ocr_calls' = ocr_calls + 1
    /\ UNCHANGED <<ocr_use_winrt, ocr_now, notOcrVars>>

OcrRecognizeRegion(image, region, o) ==
    /\ ocr_calls < OcrMaxCalls
    /\ LET r == RecognizeRegion(ocr_cache, ocr_now, image, region[1], region[2],
                                region[3], region[4], ocr_use_winrt, o.native,
                                o.powershell)
       IN /\ ocr_cache' = r.cache
          /\ ocr_result' = OcrReturned("recognize_region", r)
          /\ ocr_stored_for' = OcrStoredFor(ocr_stored_for,
                                            Crop(image, region[1], region[2], region[3],
                                                 region[4]), r)
    /\ ocr_call' = [op |-> "recognize_region", image |-> image, region |-> region,
                    use_cache |-> TRUE, native |-> o.native,
                    powershell |-> o.powershell]
    /\ ocr_calls' = ocr_calls + 1
    /\ UNCHANGED <<ocr_use_winrt, ocr_now, notOcrVars>>

OcrTick ==
    /\ ocr_now < OcrMaxTime
    /\ ocr_now' = ocr_now + 1
    /\ UNCHANGED <<ocr_use_winrt, ocr_cache, ocr_calls, ocr_call, ocr_result,
                   ocr_stored_for, notOcrVars>>

InitOcr ==
    /\ SessionState(SessionMaxEntries) /\ ShotInit({ShotInitEntries}) /\ IdleButOcr
    /\ OcrInit(BOOLEAN)

NextOcr ==
    \/ \E image \in OcrImages, use_cache \in BOOLEAN, o \in OutcomesFor(ocr_use_winrt) :
          OcrRecognize(image, use_cache, o)
    \/ \E image \in OcrImages, region \in OcrRegions, o \in OutcomesFor(ocr_use_winrt) :
          OcrRecognizeRegion(image, region, o)
    \/ OcrTick

SpecOcr == InitOcr /\ [][NextOcr]_vars

(***************************************************************************)
(* SpecDisclosure: requests, failures and resets of two windows, made      *)
(* directly and through process_response and clear                         *)
(***************************************************************************)
DisclosureErrorParams == {Params("W1", NoSel), Params(NoSel, "W2")}

InitDisclosure == SessionInit(SessionMaxEntries)

NextDisclosure ==
    \/ \E w \in Windows, level \in ExplicitLevels : RecordRequest(w, level)
    \/ \E w \in Windows : RecordFailure(w)
    \/ \E w \in Windows \cup {NoSel} : Reset(w)
    \/ \E p \in DisclosureErrorParams, c \in BOOLEAN :
          ProcessResponse("click", p, RespError, c)
    \/ Clear

SpecDisclosure == InitDisclosure /\ [][NextDisclosure]_vars

(***************************************************************************)
(* SpecCompress: ResponseCompressor.compress on responses with absent,     *)
(* empty, short and long fields, at top level and in nested mappings       *)
(***************************************************************************)
Absent == [t |-> "absent", v |-> 0]

\* the dict holding the fields of `choice` that are present
DictOf(choice) == PyDict([k \in {f \in DOMAIN choice : choice[f] # Absent} |-> choice[k]])

TextChoices ==
    {Absent, PyNone, PyStr(""), PyStr("OK"), PyStr(Chars(MAX_TEXT_LENGTH)),
     PyStr(Chars(MAX_TEXT_LENGTH + 1)), PyStr(Chars(MAX_TEXT_LENGTH + 4))}

ListChoices ==
    {Absent, PyList(<<>>), PyList(Ints(MAX_ELEMENTS_FULL)),
     PyList(Ints(MAX_ELEMENTS_FULL + 1))}

\* a mapping nested in a mapping of the response
InnerChoices ==
    {DictOf(c) : c \in [label : {Absent, PyStr(""), PyStr(Chars(MAX_TEXT_LENGTH + 4))}]}

\* a mapping of the response
NestedChoices ==
    {Absent} \cup {DictOf(c) : c \in [title : TextChoices \ {PyStr(Chars(MAX_TEXT_LENGTH))},
                                       children : ListChoices \ {PyList(Ints(MAX_ELEMENTS_FULL))},
                                       inner : {Absent} \cup InnerChoices]}

CompressResponses ==
    {DictOf(c) : c \in [status : {PyStr("success"), PyStr("error")},
                        text : TextChoices,
                        elements : ListChoices,
                        window : NestedChoices]}

\* a call of ResponseCompressor.compress
CompressCall ==
    /\ cp_result = NoCompression
    /\ cp_result' = Compress(cp_response)
    /\ UNCHANGED <<cp_response, notCompressVars>>

InitCompress ==
    /\ SessionState(SessionMaxEntries) /\ ShotInit({ShotInitEntries}) /\ IdleButCompress
    /\ cp_response \in CompressResponses
    /\ cp_result = NoCompression

NextCompress == CompressCall

SpecCompress == InitCompress /\ [][NextCompress]_vars

(***************************************************************************)
(* SpecOcrCache: recognize on a cache that holds OCR_CACHE_LIMIT entries   *)
(* or one less.  The clock is 0 when the scenario starts; entries stored   *)
(* before have timestamps below 0, in the order they were stored.          *)
(***************************************************************************)
OcrCacheImage(id) ==
    [id |-> id, width |-> 100, height |-> 40,
     words |-> <<[text |-> "OK", left |-> 10, top |-> 10, width |-> 10, height |-> 6]>>]

\* the images recognized: cached long ago, cached last, not cached
OcrCacheIds == {1, OCR_CACHE_LIMIT - 1, OCR_CACHE_LIMIT, OCR_CACHE_LIMIT + 1,
                OCR_CACHE_LIMIT + 2}

OcrFills == {OCR_CACHE_LIMIT - 1, OCR_CACHE_LIMIT}

\* how many entries share a timestamp; 0 when all were stored at time 0
OcrStoredPerSecond == {0, 7, 20}

\* the cache after recognize of images 1..n
FilledCache(n, per_second) ==
    [i \in 1..n |->
        [key |-> GetImageHash(Whole(OcrCacheImage(i))),
         regions |-> EngineRegions(Whole(OcrCacheImage(i))),
         timestamp |-> IF per_second = 0 THEN 0 ELSE 0 - ((n - i) \div per_second)]]

OcrCacheOutcomes(use_winrt) ==
    IF use_winrt
    THEN {[native |-> "ok", powershell |-> "unused"],
          [native |-> "raises", powershell |-> "no_output"]}
    ELSE {[native |-> "unused", powershell |-> "ok"],
          [native |-> "unused", powershell |-> "no_output"]}

InitOcrCache ==
    /\ SessionState(SessionMaxEntries) /\ ShotInit({ShotInitEntries}) /\ IdleButOcr
    /\ ocr_use_winrt \in BOOLEAN
    /\ \E n \in OcrFills, per_second \in OcrStoredPerSecond :
          /\ ocr_cache = FilledCache(n, per_second)
          /\ ocr_stored_for = {<<GetImageHash(Whole(OcrCacheImage(i))),
                                 Whole(OcrCacheImage(i))>> : i \in 1..n}
    /\ ocr_now = 0
    /\ ocr_calls = 0
    /\ ocr_call = NoOcrCall
    /\ ocr_result = NoOcrCall

NextOcrCache ==
    \/ \E id \in OcrCacheIds, o \in OcrCacheOutcomes(ocr_use_winrt) :
          OcrRecognize(OcrCacheImage(id), TRUE, o)
    \/ OcrTick

SpecOcrCache == InitOcrCache /\ [][NextOcrCache]_vars

(***************************************************************************)
(* find_text_fast (vision/ocr_optimized.py, vision/vision_service.py)      *)
(* The search keeps the list of recognitions it made: the region handed to *)
(* recognize_region, or FullImage for recognize, and whether a text region *)
(* read there matched.                                                     *)
(***************************************************************************)
FullImage == <<>>

\* search_lower in r.text.lower()
RegionsMatching(regions, search_text) ==
    LET Match(r) == Contains(Lower(r.text), Lower(search_text))
    IN SelectSeq(regions, Match)

\* what find_text_fast returns: the TextRegion (none when `found' is
\* empty), whether it raised instead, the cache afterwards and the
\* recognitions made
FindReturn(found, raised, c, recognized) ==
    [found |-> found, raised |-> raised, cache |-> c, recognized |-> recognized]

\* the body of the loop over hint_regions once recognize_region returned r
RECURSIVE SearchHints(_, _, _, _, _, _, _, _)
HintSearched(r, t, image, search_text, hint_regions, use_winrt, o, recognized) ==
    LET matching == RegionsMatching(r.regions, search_text)
        made == Append(recognized, [region |-> Head(hint_regions),
                                    matched |-> ~r.raised /\ matching # <<>>])
    IN IF r.raised THEN FindReturn(<<>>, TRUE, r.cache, made)
       ELSE IF matching # <<>> THEN FindReturn(<<matching[1]>>, FALSE, r.cache, made)
       ELSE SearchHints(r.cache, t, image, search_text, Tail(hint_regions),
                        use_winrt, o, made)

\* for x, y, w, h in hint_regions: ... return r
SearchHints(c, t, image, search_text, hint_regions, use_winrt, o, recognized) ==
    IF hint_regions = <<>> THEN FindReturn(<<>>, FALSE, c, recognized)
    ELSE HintSearched(RecognizeRegion(c, t, image, hint_regions[1][1], hint_regions[1][2],
                                      hint_regions[1][3], hint_regions[1][4],
                                      use_winrt, o.native, o.powershell),
                      t, image, search_text, hint_regions, use_winrt, o, recognized)

\* the search of the full image once recognize returned r
FullImageSearched(r, search_text, recognized) ==
    LET matching == RegionsMatching(r.regions, search_text)
        made == Append(recognized,
                       [region |-> FullImage, matched |-> ~r.raised /\ matching # <<>>])
    IN IF r.raised THEN FindReturn(<<>>, TRUE, r.cache, made)
       ELSE FindReturn(Prefix(matching, 1), FALSE, r.cache, made)

\* regions = self.recognize(image) ... return None, after the loop over the
\* hint regions returned `hinted'
FullImageSearch(hinted, t, image, search_text, use_winrt, o) ==
    IF hinted.raised \/ hinted.found # <<>> THEN hinted
    ELSE FullImageSearched(Recognize(hinted.cache, t, Whole(image), TRUE, use_winrt,
                                     o.native, o.powershell),
                           search_text, hinted.recognized)

\* OptimizedOCR.find_text_fast
FindTextFast(c, t, image, search_text, hint_regions, use_winrt, o) ==
    FullImageSearch(SearchHints(c, t, image, search_text, hint_regions, use_winrt, o, <<>>),
                    t, image, search_text, use_winrt, o)

\* WindowsOCR.find_text: recognize runs the PowerShell script; a process that
\* cannot be started, a timeout and a non-zero return code raise
WindowsFindText(c, image, search_text, powershell) ==
    LET regions == IF powershell = "ok" THEN EngineRegions(Whole(image)) ELSE <<>>
        matching == RegionsMatching(regions, search_text)
        made == <<[region |-> FullImage,
                   matched |-> powershell \in {"ok", "no_output"} /\ matching # <<>>]>>
    IN IF powershell \in {"ok", "no_output"}
       THEN FindReturn(Prefix(matching, 1), FALSE, c, made)
       ELSE FindReturn(<<>>, TRUE, c, made)

\* find_text_fast without the hint regions: straight to the full image
FindTextFastUnhinted(c, t, image, search_text, hint_regions, use_winrt, o, optimized_ocr) ==
    FindTextFast(c, t, image, search_text, <<>>, use_winrt, o)

\* VisionService.find_text_fast
VisionFindTextFast(c, t, image, search_text, hint_regions, use_winrt, o, optimized_ocr) ==
    IF optimized_ocr
    THEN FindTextFast(c, t, image, search_text, hint_regions, use_winrt, o)
    ELSE WindowsFindText(c, image, search_text,
                         IF o.powershell = "unused" THEN "ok" ELSE o.powershell)

(***************************************************************************)
(* SpecFindFast: find_text_fast with up to MaxHints hint regions on the    *)
(* service as the bridge builds it (use_optimized_ocr left at its default) *)
(***************************************************************************)
MaxHints == 2

FindImages ==
    OcrImages \cup
    {[id |-> "B", width |-> 200, height |-> 120,
      words |-> <<[text |-> "OK", left |-> 25, top |-> 17, width |-> 10, height |-> 6],
                  [text |-> "OK", left |-> 120, top |-> 17, width |-> 10,
                   height |-> 6]>>]}

HintRegions == {<<0, 0, 100, 100>>, <<100, 0, 100, 100>>, <<60, 60, 40, 40>>}

\* find_text_fast returns r
FindTextReturns(r) ==
    /\ vision_result' = [op |-> "find_text_fast", found |-> r.found,
                         raised |-> r.raised, recognized |-> r.recognized]
    /\ ocr_cache' = r.cache

FindTextCall ==
    /\ vision_call.op = "find_text_fast"
    /\ vision_result = Pending
    /\ FindTextReturns(VisionFindTextFast(ocr_cache, ocr_now, vision_call.image,
                                          vision_call.text, vision_call.hint_regions,
                                          ocr_use_winrt, vision_call.outcome,
                                          vision_call.optimized_ocr))
    /\ UNCHANGED <<vision_call, ocr_use_winrt, ocr_now, ocr_calls, ocr_call, ocr_result,
                   ocr_stored_for, sessionVars, screenshotVars, handlerVars, analyzeVars,
                   streamVars, compressVars, disclosureVars>>

InitFindFast ==
    /\ SessionState(SessionMaxEntries) /\ ShotInit({ShotInitEntries}) /\ IdleButVision
    /\ vision_call \in [op : {"find_text_fast"},
                        image : FindImages,
                        text : {"ok", "Cancel", "save"},
                        hint_regions : SeqsUpTo(HintRegions, MaxHints),
                        outcome : OutcomesFor(TRUE),
                        optimized_ocr : {TRUE}]
    /\ vision_result = Pending

NextFindFast == FindTextCall

SpecFindFast == InitFindFast /\ [][NextFindFast]_vars

(***************************************************************************)
(* ScreenshotCache: calls made one at a time                               *)
(***************************************************************************)
\* ScreenshotCache.get
ShotGetCall(req) ==
    LET key == MakeKey(req)
        r == ShotGet(sc_cache, sc_ttl_seconds, sc_stats, sc_now, key)
    IN /\ sc_stats.hits + sc_stats.misses < ShotMaxGets
       /\ sc_cache' = r.cache
       /\ sc_stats' = r.stats
       /\ sc_gets_done' = sc_gets_done + 1
       /\ sc_last' = ShotCall("get", key, ShotEntryOrNone(sc_cache, key), r.result,
                              Len(sc_cache) - Len(r.cache), FALSE)
       /\ UNCHANGED <<sc_ttl_seconds, sc_max_entries, sc_now, sc_lock, sc_threads,
                      sc_failed, sessionVars, restVars>>

\* ScreenshotCache.put of the screenshot captured now
ShotPutCall(req) ==
    LET key == MakeKey(req)
        r == ShotPut(sc_cache, sc_max_entries, sc_stats, sc_now, key, Shot(req, sc_now))
    IN /\ sc_stats.stores < ShotMaxPuts
       /\ sc_cache' = r.cache
       /\ sc_stats' = r.stats
       /\ sc_last' = ShotCall("put", key, ShotEntryOrNone(sc_cache, key), NoShot,
                              r.stats.evictions - sc_stats.evictions, r.raised)
       /\ UNCHANGED <<sc_ttl_seconds, sc_max_entries, sc_now, threadVars, sessionVars, restVars>>

\* ScreenshotCache.clear
ShotClearCall ==
    /\ sc_cache' = <<>>
    /\ sc_stats' = Bump(sc_stats, "evictions", Len(sc_cache))
    /\ sc_last' = ShotCall("clear", "", NoShotEntry, NoShot, Len(sc_cache), FALSE)
    /\ UNCHANGED <<sc_ttl_seconds, sc_max_entries, sc_now, threadVars, sessionVars, restVars>>

\* ScreenshotCache.set_ttl
ShotSetTtlCall(ttl) ==
    /\ sc_ttl_seconds' = ShotSetTtl(ttl)
    /\ sc_last' = ShotOther("set_ttl")
    /\ UNCHANGED <<sc_cache, sc_max_entries, sc_stats, sc_now, threadVars, sessionVars, restVars>>

\* ScreenshotCache.set_max_entries
ShotSetMaxEntriesCall(n) ==
    LET r == ShotSetMaxEntries(sc_cache, sc_stats, n)
    IN /\ sc_cache' = r.cache
       /\ sc_max_entries' = r.max
       /\ sc_stats' = r.stats
       /\ sc_last' = ShotCall("set_max_entries", "", NoShotEntry, NoShot,
                              Len(sc_cache) - Len(r.cache), FALSE)
       /\ UNCHANGED <<sc_ttl_seconds, sc_now, threadVars, sessionVars, restVars>>

\* the passage of time between calls
ShotTickStep ==
    /\ sc_now + ShotTick <= ShotMaxTime
    /\ sc_now' = sc_now + ShotTick
    /\ sc_last' = ShotOther("tick")
    /\ UNCHANGED <<sc_cache, sc_ttl_seconds, sc_max_entries, sc_stats, threadVars,
                   sessionVars, restVars>>

(***************************************************************************)
(* SpecShot: one caller of the screenshot cache.  The cache is built with  *)
(* the capacity of the scenario or, as the constructor allows, with none.  *)
(***************************************************************************)
InitShot == SessionState(SessionMaxEntries) /\ ShotInit({0, ShotInitEntries}) /\ RestIdle

NextShot ==
    \/ \E req \in ShotRequests : ShotGetCall(req)
    \/ \E req \in ShotRequests : ShotPutCall(req)
    \/ ShotClearCall
    \/ \E ttl \in ShotTtlInputs : ShotSetTtlCall(ttl)
    \/ \E n \in ShotEntriesInputs : ShotSetMaxEntriesCall(n)
    \/ ShotTickStep

SpecShot == InitShot /\ [][NextShot]_vars

(***************************************************************************)
(* /vision/stream (bridge.py) and VisionStreamer.stream_screenshots        *)
(* (vision/streaming.py).  The loop runs statement by statement; the clock *)
(* is the screenshot cache's, in tenths of a second.                       *)
(***************************************************************************)
TICKS_PER_SECOND == 10   \* interval = 1.0 / ..., in tenths of a second
MIN_FPS == 1             \* max(1, ...)
MAX_FPS == 30            \* min(30, fps)

\* quality, max_width and max_height of VisionConfig
StreamRequest == Request(NoRegion, 75, 1920, 1080)

\* max(1, min(30, fps)): the rate whose inverse is the interval
ClampFps(fps) == Max2(MIN_FPS, Min2(MAX_FPS, fps))

\* a branch that captures whatever the cache returned
NeedsCaptureAlways(optimized) == TRUE

\* if not optimized
NeedsCapture(optimized) == optimized = NoShot

\* a sleep time computed without the max
SleepTimeUnclamped(rate, elapsed) ==
    [num |-> TICKS_PER_SECOND - elapsed * rate, den |-> rate, elapsed |-> elapsed]

\* sleep_time = max(0, interval - elapsed), as the ratio num/den of tenths
\* of a second, with the elapsed time it was computed from
SleepTime(rate, elapsed) ==
    [num |-> Max2(0, TICKS_PER_SECOND - elapsed * rate), den |-> rate,
     elapsed |-> elapsed]

\* a transport whose send never raises
SendNeverRaises(state) == FALSE

\* ws.send raises ConnectionClosed once the connection is closed
SendRaises(state) == state # "open"

StreamMaxIterations == 2
StreamMaxTime == 3
StreamFps == {0, 5, 60}

StreamAt(pc) == st_pc = pc

\* vision_stream up to the first statement of the loop
StreamConnect(fps) ==
    /\ StreamAt("idle")
    /\ ws_state' = "open"
    /\ st_interval' = ClampFps(fps)
    /\ st_pc' = "loop"
    /\ UNCHANGED <<st_start_time, st_optimized, st_sleep_time, st_steps, st_iterations,
                   ws_frames, shotVars, notStreamVars>>

\* start_time = time.time(); once the connection is closed one more iteration
\* is enough to reach the send that raises
StreamBegin ==
    /\ StreamAt("loop")
    /\ st_iterations < StreamMaxIterations + (IF ws_state = "open" THEN 0 ELSE 1)
    /\ st_start_time' = sc_now
    /\ st_steps' = <<>>
    /\ st_iterations' = st_iterations + 1
    /\ st_pc' = "get"
    /\ UNCHANGED <<st_interval, st_optimized, st_sleep_time, ws_state, ws_frames,
                   shotVars, notStreamVars>>

\* optimized = cache.get(...); if not optimized
StreamCacheGet ==
    /\ StreamAt("get")
    /\ LET key == MakeKey(StreamRequest)
           r == ShotGet(sc_cache, sc_ttl_seconds, sc_stats, sc_now, key)
       IN /\ sc_cache' = r.cache
          /\ sc_stats' = r.stats
          /\ sc_last' = ShotCall("get", key, ShotEntryOrNone(sc_cache, key), r.result,
                                 Len(sc_cache) - Len(r.cache), FALSE)
          /\ st_optimized' = r.result
          /\ st_steps' = Append(st_steps, IF r.result = NoShot THEN "miss" ELSE "hit")
          /\ st_pc' = IF NeedsCapture(r.result) THEN "capture" ELSE "send"
    /\ UNCHANGED <<sc_ttl_seconds, sc_max_entries, sc_now, st_interval, st_start_time,
                   st_sleep_time, st_iterations, ws_state, ws_frames, notStreamVars>>

\* screenshot = ImageGrab.grab(); optimized = optimize_screenshot(...);
\* either may raise, which ends the loop
StreamCapture(ok) ==
    /\ StreamAt("capture")
    /\ st_optimized' = IF ok THEN Shot(StreamRequest, sc_now) ELSE st_optimized
    /\ st_steps' = Append(st_steps, IF ok THEN "capture" ELSE "capture_failed")
    /\ st_pc' = IF ok THEN "put" ELSE "done"
    /\ UNCHANGED <<st_interval, st_start_time, st_sleep_time, st_iterations, ws_state,
                   ws_frames, shotVars, notStreamVars>>

\* cache.put(optimized, ...)
StreamCachePut ==
    /\ StreamAt("put")
    /\ LET key == MakeKey(StreamRequest)
           r == ShotPut(sc_cache, sc_max_entries, sc_stats, sc_now, key, st_optimized)
       IN /\ sc_cache' = r.cache
          /\ sc_stats' = r.stats
          /\ sc_last' = ShotCall("put", key, ShotEntryOrNone(sc_cache, key), NoShot,
                                 r.stats.evictions - sc_stats.evictions, r.raised)
          /\ st_steps' = Append(st_steps, IF r.raised THEN "put_failed" ELSE "put")
          /\ st_pc' = IF r.raised THEN "done" ELSE "send"
    /\ UNCHANGED <<sc_ttl_seconds, sc_max_entries, sc_now, st_interval, st_start_time,
                   st_optimized, st_sleep_time, st_iterations, ws_state, ws_frames,
                   notStreamVars>>

\* ws.send(optimized.data); the exception it raises ends the loop and
\* vision_stream returns
StreamSend ==
    /\ StreamAt("send")
    /\ IF SendRaises(ws_state)
       THEN /\ st_steps' = Append(st_steps, "send_failed")
            /\ st_pc' = "done"
            /\ UNCHANGED ws_frames
       ELSE /\ ws_frames' = Append(ws_frames, st_optimized)
            /\ st_steps' = Append(st_steps, "send")
            /\ st_pc' = "sleep"
    /\ UNCHANGED <<st_interval, st_start_time, st_optimized, st_sleep_time,
                   st_iterations, ws_state, shotVars, notStreamVars>>

\* elapsed = time.time() - start_time; sleep_time = max(0, interval - elapsed);
\* if sleep_time > 0: time.sleep(sleep_time), which lasts at least sleep_time
StreamSleep ==
    /\ StreamAt("sleep")
    /\ LET sleep_time == SleepTime(st_interval, sc_now - st_start_time)
       IN /\ st_sleep_time' = sleep_time
          /\ sc_now' = IF sleep_time.num > 0
                       THEN sc_now + (sleep_time.num + sleep_time.den - 1) \div sleep_time.den
                       ELSE sc_now
    /\ st_steps' = Append(st_steps, "sleep")
    /\ st_pc' = "loop"
    /\ UNCHANGED <<sc_cache, sc_ttl_seconds, sc_max_entries, sc_stats, sc_last,
                   st_interval, st_start_time, st_optimized, st_iterations, ws_state,
                   ws_frames, notStreamVars>>

\* the client or the network closes the connection
WsClose ==
    /\ ws_state = "open"
    /\ ws_state' = "closed"
    /\ UNCHANGED <<st_pc, st_interval, st_start_time, st_optimized, st_sleep_time,
                   st_steps, st_iterations, ws_frames, shotVars, notStreamVars>>

\* time passes while the loop runs
StreamTick ==
    /\ sc_now < StreamMaxTime
    /\ sc_now' = sc_now + 1
    /\ UNCHANGED <<sc_cache, sc_ttl_seconds, sc_max_entries, sc_stats, sc_last,
                   streamVars, notStreamVars>>

\* the statements of stream_screenshots
StreamLoop ==
    \/ StreamBegin
    \/ StreamCacheGet
    \/ \E ok \in BOOLEAN : StreamCapture(ok)
    \/ StreamCachePut
    \/ StreamSend
    \/ StreamSleep

(***************************************************************************)
(* SpecStream: one /vision/stream connection next to another endpoint that *)
(* clears the shared screenshot cache.  SpecStreamLive adds that the       *)
(* thread serving the connection keeps running.                            *)
(***************************************************************************)
InitStream == SessionState(SessionMaxEntries) /\ ShotInit({ShotInitEntries}) /\ RestIdle

NextStream ==
    \/ \E fps \in StreamFps : StreamConnect(fps)
    \/ StreamBegin
    \/ StreamCacheGet
    \/ \E ok \in BOOLEAN : StreamCapture(ok)
    \/ StreamCachePut
    \/ StreamSend
    \/ StreamSleep
    \/ WsClose
    \/ StreamTick
    \/ ShotClearCall

SpecStream == InitStream /\ [][NextStream]_vars

SpecStreamLive == InitStream /\ [][NextStream]_vars /\ WF_vars(StreamLoop)

(***************************************************************************)
(* ScreenshotCache: calls made by several threads, statement by statement  *)
(***************************************************************************)
\* `with self._lock` entered without waiting for the owner to leave
CanAcquireAlways(owner, t) == TRUE

\* `with self._lock`: the RLock is free or already owned by the caller
CanAcquire(owner, t) == owner = NoThread \/ owner = t

ThreadAt(t, pc) == sc_threads[t].pc = pc
Goto(t, pc) == [sc_threads EXCEPT ![t].pc = pc]
InCall(ops) == Cardinality({t \in Threads : sc_threads[t].pc \in ops})

GetSteps == {"get_lock", "get_check", "get_entry", "get_hit", "get_hit_store", "get_del",
             "get_miss", "get_miss_store"}
PutSteps == {"put_lock", "put_loop", "put_del", "put_store"}
LockSteps == {"get_lock", "put_lock", "clear_lock", "set_ttl_lock", "set_max_entries_lock"}

\* get: key = self._make_key(...); now = time.time()
BeginGet(t, req) ==
    /\ ThreadAt(t, "idle")
    /\ sc_gets_done + InCall(GetSteps) < ThreadMaxGets
    /\ sc_threads' = [sc_threads EXCEPT ![t] = [IdleThread EXCEPT !.pc = "get_lock",
                                                                !.key = MakeKey(req),
                                                                !.now = sc_now]]
    /\ UNCHANGED <<shotVars, sc_lock, sc_gets_done, sc_failed, sessionVars, restVars>>

\* put: key = self._make_key(...)
BeginPut(t, req) ==
    /\ ThreadAt(t, "idle")
    /\ sc_stats.stores + InCall(PutSteps) < ThreadMaxPuts
    /\ sc_threads' = [sc_threads EXCEPT ![t] = [IdleThread EXCEPT !.pc = "put_lock",
                                                                !.key = MakeKey(req),
                                                                !.data = Shot(req, sc_now)]]
    /\ UNCHANGED <<shotVars, sc_lock, sc_gets_done, sc_failed, sessionVars, restVars>>

\* clear, set_ttl and set_max_entries are called
BeginOther(t, op, arg) ==
    /\ ThreadAt(t, "idle")
    /\ sc_threads' = [sc_threads EXCEPT ![t] = [IdleThread EXCEPT !.pc = op,
                                                                !.arg = arg]]
    /\ UNCHANGED <<shotVars, sc_lock, sc_gets_done, sc_failed, sessionVars, restVars>>

\* with self._lock:
Acquire(t) ==
    /\ sc_threads[t].pc \in LockSteps
    /\ CanAcquire(sc_lock, t)
    /\ sc_lock' = t
    /\ sc_threads' = Goto(t, CASE ThreadAt(t, "get_lock") -> "get_check"
                               [] ThreadAt(t, "put_lock") -> "put_loop"
                               [] ThreadAt(t, "clear_lock") -> "clear"
                               [] ThreadAt(t, "set_ttl_lock") -> "set_ttl"
                               [] ThreadAt(t, "set_max_entries_lock") -> "set_max_entries")
    /\ UNCHANGED <<shotVars, sc_gets_done, sc_failed, sessionVars, restVars>>

\* the call returns, leaving the with block
Return(t) ==
    /\ sc_lock' = NoThread
    /\ sc_threads' = [sc_threads EXCEPT ![t] = IdleThread]

\* a KeyError leaves the with block
Raise(t) ==
    /\ sc_failed' = TRUE
    /\ Return(t)

\* get: if key in self._cache
GetCheck(t) ==
    /\ ThreadAt(t, "get_check")
    /\ sc_threads' = Goto(t, IF ShotHasKey(sc_cache, sc_threads[t].key)
                             THEN "get_entry" ELSE "get_miss")
    /\ UNCHANGED <<shotVars, sc_lock, sc_gets_done, sc_failed, sessionVars, restVars>>

\* get: entry = self._cache[key]; age = now - entry.timestamp; if age <= ttl
GetEntry(t) ==
    /\ ThreadAt(t, "get_entry")
    /\ IF ShotHasKey(sc_cache, sc_threads[t].key)
       THEN LET entry == ShotEntry(sc_cache, sc_threads[t].key)
                age == sc_threads[t].now - entry.timestamp
            IN /\ sc_threads' = [sc_threads EXCEPT
                                   ![t].pc = IF age <= sc_ttl_seconds
                                             THEN "get_hit" ELSE "get_del",
                                   ![t].data = entry.data]
               /\ UNCHANGED <<sc_lock, sc_failed>>
       ELSE Raise(t)
    /\ UNCHANGED <<shotVars, sc_gets_done, sessionVars, restVars>>

\* get: entry.hits += 1, and the read of self._stats["hits"]
GetHit(t) ==
    /\ ThreadAt(t, "get_hit")
    /\ sc_cache' = [i \in DOMAIN sc_cache |->
                      IF sc_cache[i].cache_key = sc_threads[t].key
                      THEN [sc_cache[i] EXCEPT !.hits = @ + 1] ELSE sc_cache[i]]
    /\ sc_threads' = [sc_threads EXCEPT ![t].pc = "get_hit_store",
                                        ![t].count = sc_stats.hits]
    /\ UNCHANGED <<sc_ttl_seconds, sc_max_entries, sc_stats, sc_now, sc_last, sc_lock,
                   sc_gets_done, sc_failed, sessionVars, restVars>>

\* get: the write of self._stats["hits"]; return entry.data
GetHitStore(t) ==
    /\ ThreadAt(t, "get_hit_store")
    /\ sc_stats' = [sc_stats EXCEPT !.hits = sc_threads[t].count + 1]
    /\ sc_gets_done' = sc_gets_done + 1
    /\ Return(t)
    /\ UNCHANGED <<sc_cache, sc_ttl_seconds, sc_max_entries, sc_now, sc_last, sc_failed,
                   sessionVars, restVars>>

\* get: del self._cache[key]; self._stats["evictions"] += 1
GetDel(t) ==
    /\ ThreadAt(t, "get_del")
    /\ IF ShotHasKey(sc_cache, sc_threads[t].key)
       THEN /\ sc_cache' = ShotDel(sc_cache, sc_threads[t].key)
            /\ sc_stats' = Bump(sc_stats, "evictions", 1)
            /\ sc_threads' = Goto(t, "get_miss")
            /\ UNCHANGED <<sc_lock, sc_failed>>
       ELSE Raise(t) /\ UNCHANGED <<sc_cache, sc_stats>>
    /\ UNCHANGED <<sc_ttl_seconds, sc_max_entries, sc_now, sc_last, sc_gets_done,
                   sessionVars, restVars>>

\* get: the read of self._stats["misses"]
GetMiss(t) ==
    /\ ThreadAt(t, "get_miss")
    /\ sc_threads' = [sc_threads EXCEPT ![t].pc = "get_miss_store",
                                        ![t].count = sc_stats.misses]
    /\ UNCHANGED <<shotVars, sc_lock, sc_gets_done, sc_failed, sessionVars, restVars>>

\* get: the write of self._stats["misses"]; return None
GetMissStore(t) ==
    /\ ThreadAt(t, "get_miss_store")
    /\ sc_stats' = [sc_stats EXCEPT !.misses = sc_threads[t].count + 1]
    /\ sc_gets_done' = sc_gets_done + 1
    /\ Return(t)
    /\ UNCHANGED <<sc_cache, sc_ttl_seconds, sc_max_entries, sc_now, sc_last, sc_failed,
                   sessionVars, restVars>>

\* put, set_max_entries: the loop condition, given as the number of entries
\* that may stay, and oldest_key = min(...)
EvictLoop(t, at, limit, del, done) ==
    /\ ThreadAt(t, at)
    /\ sc_threads' = IF Len(sc_cache) > limit
                     THEN [sc_threads EXCEPT ![t].pc = del,
                                             ![t].oldest_key = OldestKey(sc_cache)]
                     ELSE Goto(t, done)
    /\ UNCHANGED <<shotVars, sc_lock, sc_gets_done, sc_failed, sessionVars, restVars>>

\* put, set_max_entries: del self._cache[oldest_key]; self._stats["evictions"] += 1
EvictDel(t, at, loop) ==
    /\ ThreadAt(t, at)
    /\ IF ShotHasKey(sc_cache, sc_threads[t].oldest_key)
       THEN /\ sc_cache' = ShotDel(sc_cache, sc_threads[t].oldest_key)
            /\ sc_stats' = Bump(sc_stats, "evictions", 1)
            /\ sc_threads' = Goto(t, loop)
            /\ UNCHANGED <<sc_lock, sc_failed>>
       ELSE Raise(t) /\ UNCHANGED <<sc_cache, sc_stats>>
    /\ UNCHANGED <<sc_ttl_seconds, sc_max_entries, sc_now, sc_last, sc_gets_done,
                   sessionVars, restVars>>

\* put: while len(self._cache) >= self.max_entries
PutLoop(t) == EvictLoop(t, "put_loop", sc_max_entries - 1, "put_del", "put_store")

PutDel(t) == EvictDel(t, "put_del", "put_loop")

\* put: self._cache[key] = CachedScreenshot(...); self._stats["stores"] += 1
PutStore(t) ==
    /\ ThreadAt(t, "put_store")
    /\ sc_cache' = ShotStore(sc_cache, [data |-> sc_threads[t].data, timestamp |-> sc_now,
                                        cache_key |-> sc_threads[t].key, hits |-> 0])
    /\ sc_stats' = Bump(sc_stats, "stores", 1)
    /\ Return(t)
    /\ UNCHANGED <<sc_ttl_seconds, sc_max_entries, sc_now, sc_last, sc_gets_done,
                   sc_failed, sessionVars, restVars>>

\* clear
ClearBody(t) ==
    /\ ThreadAt(t, "clear")
    /\ sc_cache' = <<>>
    /\ sc_stats' = Bump(sc_stats, "evictions", Len(sc_cache))
    /\ Return(t)
    /\ UNCHANGED <<sc_ttl_seconds, sc_max_entries, sc_now, sc_last, sc_gets_done,
                   sc_failed, sessionVars, restVars>>

\* set_ttl
SetTtlBody(t) ==
    /\ ThreadAt(t, "set_ttl")
    /\ sc_ttl_seconds' = ShotSetTtl(sc_threads[t].arg)
    /\ Return(t)
    /\ UNCHANGED <<sc_cache, sc_max_entries, sc_stats, sc_now, sc_last, sc_gets_done,
                   sc_failed, sessionVars, restVars>>

\* set_max_entries: self.max_entries = max(1, max_entries)
SetMaxEntriesBody(t) ==
    /\ ThreadAt(t, "set_max_entries")
    /\ sc_max_entries' = IF sc_threads[t].arg > SHOT_MIN_ENTRIES
                         THEN sc_threads[t].arg ELSE SHOT_MIN_ENTRIES
    /\ sc_threads' = Goto(t, "set_max_entries_loop")
    /\ UNCHANGED <<sc_cache, sc_ttl_seconds, sc_stats, sc_now, sc_last, sc_lock,
                   sc_gets_done, sc_failed, sessionVars, restVars>>

\* set_max_entries: while len(self._cache) > self.max_entries
SetMaxEntriesLoop(t) ==
    EvictLoop(t, "set_max_entries_loop", sc_max_entries, "set_max_entries_del",
              "set_max_entries_done")

SetMaxEntriesDel(t) == EvictDel(t, "set_max_entries_del", "set_max_entries_loop")

\* set_max_entries returns
SetMaxEntriesDone(t) ==
    /\ ThreadAt(t, "set_max_entries_done")
    /\ Return(t)
    /\ UNCHANGED <<shotVars, sc_gets_done, sc_failed, sessionVars, restVars>>

\* the passage of time while calls are under way
ThreadTick ==
    /\ sc_now + ShotTick <= ShotThreadMaxTime
    /\ sc_now' = sc_now + ShotTick
    /\ UNCHANGED <<sc_cache, sc_ttl_seconds, sc_max_entries, sc_stats, sc_last,
                   threadVars, sessionVars, restVars>>

(***************************************************************************)
(* SpecShotThreads: two threads calling one screenshot cache               *)
(***************************************************************************)
ThreadRequests == {Request(NoRegion, 75, 1920, 1080), Request(NoRegion, 75, 1280, 720)}
ThreadTtlInputs == {0}
ThreadEntriesInputs == {1}

InitShotThreads ==
    SessionState(SessionMaxEntries) /\ ShotInit({ShotInitEntries}) /\ RestIdle

NextShotThreads ==
    \/ \E t \in Threads, req \in ThreadRequests : BeginGet(t, req)
    \/ \E t \in Threads, req \in ThreadRequests : BeginPut(t, req)
    \/ \E t \in Threads : BeginOther(t, "clear_lock", 0)
    \/ \E t \in Threads, ttl \in ThreadTtlInputs : BeginOther(t, "set_ttl_lock", ttl)
    \/ \E t \in Threads, n \in ThreadEntriesInputs :
          BeginOther(t, "set_max_entries_lock", n)
    \/ \E t \in Threads : Acquire(t)
    \/ \E t \in Threads : GetCheck(t)
    \/ \E t \in Threads : GetEntry(t)
    \/ \E t \in Threads : GetHit(t)
    \/ \E t \in Threads : GetHitStore(t)
    \/ \E t \in Threads : GetDel(t)
    \/ \E t \in Threads : GetMiss(t)
    \/ \E t \in Threads : GetMissStore(t)
    \/ \E t \in Threads : PutLoop(t)
    \/ \E t \in Threads : PutDel(t)
    \/ \E t \in Threads : PutStore(t)
    \/ \E t \in Threads : ClearBody(t)
    \/ \E t \in Threads : SetTtlBody(t)
    \/ \E t \in Threads : SetMaxEntriesBody(t)
    \/ \E t \in Threads : SetMaxEntriesLoop(t)
    \/ \E t \in Threads : SetMaxEntriesDel(t)
    \/ \E t \in Threads : SetMaxEntriesDone(t)
    \/ ThreadTick

SpecShotThreads == InitShotThreads /\ [][NextShotThreads]_vars

(***************************************************************************)
(* Properties of the session cache                                         *)
(***************************************************************************)
IsGet == last.op = "get_cached"
IsProcess == last.op = "process_response"
LastKey == NormalizeKey(last.action, last.params)

StoreThenHit ==
    [][(/\ last.op = "process_response"
        /\ last.action \in CACHEABLE_COMMANDS
        /\ IsSuccessResponse(last.response)
        /\ last'.op = "get_cached"
        /\ last'.action = last.action
        /\ last'.params = last.params) => last'.hit]_vars

\* C5: invalidate_window(W) removes exactly the entries tagged with W's
\* fingerprint, and a fingerprint update that replaces a recorded fingerprint
\* removes exactly the entries tagged with the old one; all other entries stay
\* in the cache unchanged and in the same order.  A first fingerprint (none
\* recorded before) removes nothing.
FingerprintOf(w) == IF window_hashes[w] = NoHash THEN "unknown" ELSE window_hashes[w]

Without(c, fp) == LET Keep(e) == e.window_hash # fp IN SelectSeq(c, Keep)

ScopedInvalidationExact ==
    [][/\ (last'.op = "invalidate_window") =>
             cache' = Without(cache, FingerprintOf(last'.params.window))
       /\ \A w \in Windows :
             (last'.op = "process_response" /\ window_hashes'[w] # window_hashes[w]) =>
                LET stored == CacheSet(cache, window_hashes, now, max_entries,
                                       last'.action, last'.params, last'.response)
                IN cache' = IF window_hashes[w] = NoHash THEN stored
                            ELSE Without(stored, window_hashes[w])]_vars

\* a fingerprint update removed the entries tagged with the old fingerprint
\* and left an entry with another tag in the cache
ScopedInvalidationWitness ==
    /\ IsProcess
    /\ last.action \in FINGERPRINT_COMMANDS
    /\ last.invalidated > 0
    /\ cache # <<>>

\* the TTL the claims expect for an action, and the age of the entry a lookup met
ExpectedTtl(action) ==
    IF action \in DOMAIN TTL_BY_COMMAND THEN TTL_BY_COMMAND[action] ELSE DEFAULT_TTL

LastAge == now - last.entry.created_at
LastFound == IsGet /\ last.entry # NoEntry
LastFingerprint ==
    LET w == IF last.params.window # NoSel THEN last.params.window
             ELSE last.params.selector
    IN IF w = NoSel THEN "desktop"
       ELSE IF window_hashes[w] = NoHash THEN "unknown" ELSE window_hashes[w]

\* C3: a lookup never returns as a hit an entry older than its TTL, the TTL
\* being TTL_BY_COMMAND[action], or DEFAULT_TTL for an action not in the table;
\* an entry whose fingerprint still matches is a hit up to age = ttl and a miss
\* beyond it, and the lookup that finds it expired deletes it.
TtlRespected ==
    /\ (IsGet /\ last.hit) => (last.entry # NoEntry /\ LastAge <= ExpectedTtl(last.action))
    /\ (LastFound /\ last.entry.window_hash = LastFingerprint
          /\ LastAge <= ExpectedTtl(last.action)) => last.hit
    /\ (LastFound /\ LastAge > ExpectedTtl(last.action)) =>
          (~last.hit /\ ~HasKey(cache, LastKey))

\* a lookup met an entry of an action outside the TTL table that was older than
\* DEFAULT_TTL, removed it and reported a miss
TtlWitness ==
    /\ LastFound
    /\ last.action \notin DOMAIN TTL_BY_COMMAND
    /\ LastAge > DEFAULT_TTL
    /\ ~last.hit
    /\ ~HasKey(cache, LastKey)

\* an entry is a hit at the last instant of its TTL
TtlBoundaryWitness ==
    LastFound /\ last.action = "element_exists" /\ LastAge = 5 /\ last.hit

\* C4: a lookup that finds an entry whose recorded fingerprint differs from the
\* current fingerprint of the window named in the params reports a miss and
\* deletes the entry; an entry tagged with the desktop sentinel is never
\* rejected for its fingerprint (it is a hit until it expires).
FingerprintChecked ==
    /\ (LastFound /\ last.entry.window_hash # LastFingerprint
          /\ last.entry.window_hash # "desktop") =>
          (~last.hit /\ ~HasKey(cache, LastKey))
    /\ (LastFound /\ last.entry.window_hash = "desktop"
          /\ LastAge <= last.entry.ttl_seconds) => last.hit

\* a lookup met an unexpired entry with an outdated fingerprint and removed it
FingerprintWitness ==
    /\ LastFound
    /\ LastAge <= last.entry.ttl_seconds
    /\ last.entry.window_hash # LastFingerprint
    /\ ~last.hit
    /\ ~HasKey(cache, LastKey)

\* a desktop-scope entry was served
DesktopWitness == LastFound /\ last.entry.window_hash = "desktop" /\ last.hit

\* C6: process_response puts the response into the cache iff the manager is
\* enabled, the action is cacheable and the status is success (the entry is
\* then in the cache unless the fingerprint update of the same call replaced a
\* recorded fingerprint); so a lookup never returns an error response and is
\* always a miss for a non-cacheable action.
StatusOf(response) == IF response.t = "dict" /\ "status" \in DOMAIN response.v
                      THEN response.v["status"].v ELSE ""

WriteThroughStoresSuccesses ==
    [][/\ (last'.op = "process_response") =>
            LET wanted == /\ enabled
                          /\ last'.action \in CACHEABLE_COMMANDS
                          /\ StatusOf(last'.response) = "success"
                key == <<last'.action, last'.params>>
                replaced == \E w \in Windows : /\ window_hashes[w] # NoHash
                                               /\ window_hashes'[w] # window_hashes[w]
            IN /\ (wanted /\ ~replaced) =>
                     \E i \in DOMAIN cache' : /\ cache'[i].key = key
                                              /\ cache'[i].value = last'.response
                                              /\ cache'[i].created_at = now
               /\ ~wanted =>
                     \A i \in DOMAIN cache' : \E j \in DOMAIN cache : cache[j] = cache'[i]
       /\ (last'.op = "get_cached" /\ last'.hit) =>
            (StatusOf(last'.value) = "success" /\ last'.action \in CACHEABLE_COMMANDS)
       /\ (last'.op = "get_cached" /\ last'.action \notin CACHEABLE_COMMANDS) => ~last'.hit
       /\ \A i \in DOMAIN cache' : StatusOf(cache'[i].value) = "success"]_vars

\* an error response for a cacheable action was processed by the enabled
\* manager while the cache held an entry, and nothing was stored for it
WriteThroughErrorWitness ==
    /\ IsProcess
    /\ enabled
    /\ last.action \in CACHEABLE_COMMANDS
    /\ StatusOf(last.response) = "error"
    /\ cache # <<>>
    /\ ~HasKey(cache, LastKey)

\* C7: compression never changes an error response: compress, and
\* process_response with compress=True, return an error response with every
\* field unchanged, null, empty, long-string and long-list fields included.
ErrorsNotCompressed ==
    (IsProcess /\ StatusOf(last.response) = "error") =>
        (last.value = last.response /\ Compress(last.response) = last.response)

\* an error response with null, empty, long-string and long-list fields went
\* through process_response with compress=True on the enabled manager
ErrorsNotCompressedWitness ==
    /\ IsProcess
    /\ enabled
    /\ last.compress
    /\ last.response = RespError
    /\ last.value = RespError

(***************************************************************************)
(* Properties of the screenshot cache                                      *)
(***************************************************************************)
Evictions == sc_stats'.evictions - sc_stats.evictions

\* `new` is `old` without its n oldest entries: n entries were removed, none
\* of them newer than an entry that was kept, and every entry kept is in `new`
\* as it was, except the one for `key`, which a put replaces
RemovedOldest(old, new, n, key) ==
    \E E \in SUBSET DOMAIN old :
        /\ Cardinality(E) = n
        /\ \A i \in E, j \in DOMAIN old \ E : old[i].timestamp <= old[j].timestamp
        /\ \A j \in DOMAIN old \ E :
              old[j].cache_key # key => \E m \in DOMAIN new : new[m] = old[j]
        /\ ShotKeys(new) \ {key} = {old[j].cache_key : j \in DOMAIN old \ E} \ {key}

ShotFreshness ==
    [][LET key == sc_last'.key
           fresh == /\ ShotHasKey(sc_cache, key)
                    /\ sc_now - ShotEntry(sc_cache, key).timestamp <= sc_ttl_seconds
       IN /\ sc_last'.op = "get" =>
                /\ sc_last'.result # NoShot => fresh
                /\ fresh => sc_last'.result = ShotEntry(sc_cache, key).data
                /\ ~fresh => /\ sc_last'.result = NoShot
                             /\ ~ShotHasKey(sc_cache', key)
                             /\ sc_stats'.misses = sc_stats.misses + 1
          /\ \A k \in ShotKeys(sc_cache') \ ShotKeys(sc_cache) :
                sc_last'.op = "put" /\ sc_last'.key = k
      ]_vars

\* a get met an entry older than the ttl, returned nothing and removed it
ShotExpiredWitness ==
    /\ sc_last.op = "get"
    /\ sc_last.found # NoShotEntry
    /\ sc_now - sc_last.found.timestamp > sc_ttl_seconds
    /\ sc_last.result = NoShot
    /\ sc_last.evicted = 1
    /\ ~ShotHasKey(sc_cache, sc_last.key)
    /\ sc_stats.misses >= 1

BodySteps == {"get_check", "get_entry", "get_hit", "get_hit_store", "get_del",
              "get_miss", "get_miss_store", "put_loop", "put_del", "put_store",
              "clear", "set_ttl", "set_max_entries", "set_max_entries_loop",
              "set_max_entries_del", "set_max_entries_done"}

\* C10: with two threads calling get, put, clear, set_ttl and set_max_entries
\* in every interleaving of their statements, only the owner of the lock is
\* inside a call's locked block, no call raises KeyError on an entry that
\* another thread removed, and whenever the lock is free the cache holds at
\* most max_entries entries and hits + misses is the number of get calls that
\* have returned.
ShotThreadSafe ==
    /\ \A t \in Threads : sc_threads[t].pc \in BodySteps => sc_lock = t
    /\ ~sc_failed
    /\ sc_lock = NoThread =>
          /\ Len(sc_cache) <= sc_max_entries
          /\ sc_stats.hits + sc_stats.misses = sc_gets_done

\* a get waits for the lock while the put that owns it has just evicted the
\* entry of the key the get asks for
ShotThreadsWitness ==
    \E t \in Threads, u \in Threads :
        /\ t # u
        /\ sc_lock = t
        /\ sc_threads[t].pc = "put_store"
        /\ sc_threads[t].oldest_key # ""
        /\ sc_threads[u].pc = "get_lock"
        /\ sc_threads[u].key = sc_threads[t].oldest_key
        /\ ~ShotHasKey(sc_cache, sc_threads[u].key)

(***************************************************************************)
(* Properties of the session cache under concurrent handlers               *)
(***************************************************************************)
\* C11: with request handlers calling get_cached, process_response and
\* invalidate_window concurrently, no SemanticCache call raises and, whenever
\* no call is under way, the cache holds at most max_entries entries.
HandlersSerialized ==
    /\ ~cm_failed
    /\ (\A h \in Handlers : cm_threads[h].pc = "idle") => Len(cache) <= max_entries

(***************************************************************************)
(* Properties of /vision/analyze_or_screenshot                             *)
(***************************************************************************)
LocalAnalysisFailed == va_request.service # "ok" \/ va_request.analysis # "ok"

LocalAnalysisLimited ==
    /\ ~LocalAnalysisFailed
    /\ va_request.element_count < 3
    /\ va_request.text_count < 5

\* C12: in auto mode, a screenshot being obtainable, the response carries a
\* fallback_reason and a screenshot exactly when local analysis failed or
\* reported fewer than 3 elements and fewer than 5 text regions; and when
\* local analysis failed the response is a success response that carries the
\* reason.
AutoModeFallback ==
    (va_request.mode = "auto" /\ va_request.screenshot = "ok") =>
        /\ (/\ va_response.status = "success"
            /\ va_response.fallback_reason # NoReason
            /\ va_response.screenshot)
           <=> (LocalAnalysisFailed \/ LocalAnalysisLimited)
        /\ LocalAnalysisFailed =>
              /\ va_response.status = "success"
              /\ va_response.fallback_reason # NoReason

(***************************************************************************)
(* Properties of find_element_by_text                                      *)
(***************************************************************************)
IsFindText == vision_call.op = "find_element_by_text" /\ vision_result # Pending

\* the indices of the text regions whose text contains the query
MatchingRegions ==
    {i \in DOMAIN vision_call.regions :
        IF vision_call.case_sensitive
        THEN Contains(vision_call.regions[i].text, vision_call.text)
        ELSE Contains(Lower(vision_call.regions[i].text), Lower(vision_call.text))}

\* the (matching text region, detection) pairs with
\* intersection area / text-region area > 0.5
OverlappingPairs ==
    {p \in MatchingRegions \X DOMAIN vision_call.detections :
        2 * Intersection(vision_call.regions[p[1]], vision_call.detections[p[2]])
          > BoundsArea(vision_call.regions[p[1]])}

\* detection.confidence x overlap of p is at least that of q
ScoreAtLeast(p, q) ==
    vision_call.detections[p[2]].confidence
      * Intersection(vision_call.regions[p[1]], vision_call.detections[p[2]])
      * BoundsArea(vision_call.regions[q[1]])
    >= vision_call.detections[q[2]].confidence
      * Intersection(vision_call.regions[q[1]], vision_call.detections[q[2]])
      * BoundsArea(vision_call.regions[p[1]])

\* C13: find_element_by_text returns nothing iff no text region matches the
\* query, and then detection is not run; if some (matching region, detection)
\* pair has overlap > 0.5 it returns the element of a pair maximizing
\* confidence x overlap: the region's centre, size and text, the detection's
\* confidence, element_type button; otherwise it returns the first matching
\* region with its own confidence and element_type text.
FindByTextResult ==
    IsFindText =>
        /\ vision_result.element = NoElement <=> MatchingRegions = {}
        /\ MatchingRegions = {} => ~vision_result.detected
        /\ OverlappingPairs # {} =>
              \E p \in OverlappingPairs :
                  /\ \A q \in OverlappingPairs : ScoreAtLeast(p, q)
                  /\ vision_result.element =
                        [x |-> vision_call.regions[p[1]].x,
                         y |-> vision_call.regions[p[1]].y,
                         width |-> vision_call.regions[p[1]].width,
                         height |-> vision_call.regions[p[1]].height,
                         confidence |-> vision_call.detections[p[2]].confidence,
                         text |-> vision_call.regions[p[1]].text,
                         element_type |-> "button"]
        /\ (MatchingRegions # {} /\ OverlappingPairs = {}) =>
              LET first == vision_call.regions[CHOOSE i \in MatchingRegions :
                                                  \A k \in MatchingRegions : i <= k]
              IN vision_result.element =
                    [x |-> first.x, y |-> first.y, width |-> first.width,
                     height |-> first.height, confidence |-> first.confidence,
                     text |-> first.text, element_type |-> "text"]

\* two pairs overlap by more than half, the one with the larger overlap has
\* the smaller score, and the element of the other one was returned
FindByTextWitness ==
    /\ IsFindText
    /\ \E p \in OverlappingPairs, q \in OverlappingPairs :
          /\ ~ScoreAtLeast(q, p)
          /\ Intersection(vision_call.regions[q[1]], vision_call.detections[q[2]])
               * BoundsArea(vision_call.regions[p[1]])
             > Intersection(vision_call.regions[p[1]], vision_call.detections[p[2]])
               * BoundsArea(vision_call.regions[q[1]])
          /\ \A r \in OverlappingPairs : ScoreAtLeast(p, r)
          /\ vision_result.element.element_type = "button"
          /\ vision_result.element.confidence = vision_call.detections[p[2]].confidence

(***************************************************************************)
(* Properties of non-maximum suppression                                   *)
(***************************************************************************)
NmsReturned == vision_result # Pending /\ vision_result.op \in
                 {"postprocess_output", "apply_nms", "deduplicate_detections"}

\* IoU of two boxes exceeds 0.5
IouAboveHalf(a, b) ==
    /\ Intersection(a, b) > 0
    /\ 2 * Intersection(a, b) > BoundsArea(a) + BoundsArea(b) - Intersection(a, b)

\* the boxes that take part in suppression: all of them for the tiled
\* merge, those above the threshold and outside the padding for postprocessing
SuppressionCandidates ==
    {vision_call.detections[i] : i \in
        {k \in DOMAIN vision_call.detections :
            vision_call.op = "postprocess_output" =>
                /\ vision_call.detections[k].confidence >= 15
                /\ vision_call.detections[k].x >= 0
                /\ vision_call.detections[k].y >= 0}}

\* C14: the list returned by _postprocess_output and the list returned by
\* _deduplicate_detections is ordered by non-increasing confidence, holds no
\* two detections with IoU > 0.5, holds only candidates, and every candidate
\* that was dropped has IoU > 0.5 with a kept detection of equal or higher
\* confidence.
DetectionOutputContract ==
    (NmsReturned /\ vision_call.source = "detector"
       /\ vision_result.op \in {"postprocess_output", "deduplicate_detections"}) =>
        LET out == vision_result.detections
        IN /\ \A i \in DOMAIN out, j \in DOMAIN out :
                 i < j => /\ out[i].confidence >= out[j].confidence
                          /\ ~IouAboveHalf(out[i], out[j])
           /\ \A i \in DOMAIN out : out[i] \in SuppressionCandidates
           /\ \A c \in SuppressionCandidates :
                 \/ \E i \in DOMAIN out : out[i] = c
                 \/ \E i \in DOMAIN out : /\ IouAboveHalf(out[i], c)
                                          /\ out[i].confidence >= c.confidence

\* of three candidates the second was suppressed by the first and the third,
\* which overlaps only the suppressed one, was kept
DetectionOutputWitness ==
    /\ NmsReturned
    /\ vision_call.source = "detector"
    /\ vision_result.op = "postprocess_output"
    /\ Len(vision_result.detections) = 2
    /\ \E c \in SuppressionCandidates :
          /\ \A i \in DOMAIN vision_result.detections : vision_result.detections[i] # c
          /\ IouAboveHalf(vision_result.detections[1], c)
          /\ IouAboveHalf(c, vision_result.detections[2])
          /\ c.confidence > vision_result.detections[2].confidence

\* C15: _apply_nms applied to a list that a suppression returned, and
\* _deduplicate_detections applied to a list returned by a suppression that
\* sorts (_postprocess_output, _deduplicate_detections), return that list: the
\* same detections in the same order.
NmsIdempotent ==
    (/\ NmsReturned
     /\ vision_call.source # "detector"
     /\ ~(vision_call.source = "apply_nms" /\ vision_call.op = "deduplicate_detections"))
        => vision_result.detections = vision_call.detections

\* a list from which suppression had removed a box was suppressed again
NmsIdempotentWitness ==
    /\ NmsReturned
    /\ vision_call.source = "postprocess_output"
    /\ vision_call.op = "deduplicate_detections"
    /\ Len(vision_call.detections) = 2
    /\ vision_call.detections[1].confidence = vision_call.detections[2].confidence
    /\ vision_result.detections = vision_call.detections

(***************************************************************************)
(* Properties of tiled detection                                           *)
(***************************************************************************)
TilingReturned == vision_result # Pending /\ vision_result.op = "detect_with_tiling"

\* the detections of one detector.detect call on the whole image
WholeImageDetections ==
    Detect(vision_call.image, 0, 0, vision_call.image.width, vision_call.image.height)

\* C16: for an image narrower and shorter than TILE_SIZE, _detect_with_tiling
\* returns the detections of one detector.detect call on the whole image.
TilingEquivalence ==
    (/\ TilingReturned
     /\ vision_call.image.width < 640
     /\ vision_call.image.height < 640)
        => vision_result.detections = WholeImageDetections

\* the same for images that are in addition at least 100 pixels wide and high
TilingEquivalenceFromMinimum ==
    (/\ TilingReturned
     /\ vision_call.image.width < 640 /\ vision_call.image.width >= 100
     /\ vision_call.image.height < 640 /\ vision_call.image.height >= 100)
        => vision_result.detections = WholeImageDetections

\* an image of one tile with a second, skipped, tile start was detected
TilingEquivalenceWitness ==
    /\ TilingReturned
    /\ vision_call.image.width = 600 /\ vision_call.image.height = 639
    /\ Len(vision_result.detections) = 1
    /\ Len(vision_call.image.predictions) = 2

(***************************************************************************)
(* Properties of OptimizedOCR                                              *)
(***************************************************************************)
OcrCallMade == ocr_result # NoOcrCall

\* the native engine was called and failed
NativeFailed ==
    /\ OcrCallMade
    /\ ocr_result.tried # <<>>
    /\ ocr_result.tried[1] = "winrt"
    /\ ocr_call.native \in {"error", "raises"}

\* the external-process engine was called and failed or could not be started
PowershellFailed ==
    /\ OcrCallMade
    /\ ocr_result.tried # <<>>
    /\ ocr_result.tried[Len(ocr_result.tried)] = "powershell"
    /\ ocr_call.powershell \in {"no_output", "not_found", "timeout"}

\* C17: when the native engine fails on a call, recognize goes on to the
\* external-process engine in that call; when the external-process engine
\* fails or is unavailable as well (the native one having failed or being
\* unavailable), recognize returns an empty list and raises nothing.
OcrBackendFallback ==
    /\ NativeFailed => ocr_result.tried = <<"winrt", "powershell">>
    /\ PowershellFailed => (ocr_result.regions = <<>> /\ ~ocr_result.raised)

\* the part of C17 that the code provides: an exception of the native engine
\* leads to the external-process engine, and an external-process engine that
\* runs without usable output yields an empty list
OcrFallbackOnException ==
    /\ (NativeFailed /\ ocr_call.native = "raises")
          => ocr_result.tried = <<"winrt", "powershell">>
    /\ (PowershellFailed /\ ocr_call.powershell = "no_output")
          => (ocr_result.regions = <<>> /\ ~ocr_result.raised)

\* the TextRegions of the words of the image, in the frame of the image
FullFrameRegions(image) ==
    {[text |-> image.words[i].text,
      x |-> image.words[i].left + image.words[i].width \div 2,
      y |-> image.words[i].top + image.words[i].height \div 2,
      width |-> image.words[i].width, height |-> image.words[i].height,
      confidence |-> 100] : i \in DOMAIN image.words}

\* C18: every TextRegion returned by recognize_region is at its position in
\* the full image (its position in the crop plus the region origin), on every
\* call, the calls answered from the OCR cache included.
RegionCoordinatesInFullFrame ==
    (OcrCallMade /\ ocr_result.op = "recognize_region" /\ ~ocr_result.raised) =>
        \A i \in DOMAIN ocr_result.regions :
            ocr_result.regions[i] \in FullFrameRegions(ocr_call.image)

\* the same for the calls that an engine, not the cache, answered
RegionCoordinatesOnMiss ==
    (/\ OcrCallMade /\ ocr_result.op = "recognize_region" /\ ~ocr_result.raised
     /\ ocr_result.tried # <<>>) =>
        \A i \in DOMAIN ocr_result.regions :
            ocr_result.regions[i] \in FullFrameRegions(ocr_call.image)

(***************************************************************************)
(* Properties of the streaming loop                                        *)
(***************************************************************************)
\* what an iteration does, in order, when the cache answers and when it
\* does not
HitIteration == <<"hit", "send", "sleep">>
MissIteration == <<"miss", "capture", "put", "send", "sleep">>

IsPrefixOf(p, q) == Len(p) <= Len(q) /\ p = SubSeq(q, 1, Len(p))

\* the steps so far with the step that raised, if any, removed
CompletedSteps ==
    IF st_steps # <<>>
       /\ st_steps[Len(st_steps)] \in {"capture_failed", "put_failed", "send_failed"}
    THEN SubSeq(st_steps, 1, Len(st_steps) - 1)
    ELSE st_steps

FramesSentThisIteration ==
    Cardinality({i \in DOMAIN st_steps : st_steps[i] = "send"})

\* the order of the steps, one frame per iteration, the sleep time
StreamIterationOrder ==
    /\ IsPrefixOf(CompletedSteps, HitIteration) \/ IsPrefixOf(CompletedSteps, MissIteration)
    /\ st_iterations > 0 =>
          Len(ws_frames) = (st_iterations - 1) + FramesSentThisIteration
    /\ (st_steps # <<>> /\ st_steps[Len(st_steps)] = "sleep") =>
          /\ FramesSentThisIteration = 1
          /\ st_sleep_time.num >= 0
          /\ IF st_sleep_time.elapsed * st_interval <= 10
             THEN st_sleep_time.num = 10 - st_sleep_time.elapsed * st_interval
             ELSE st_sleep_time.num = 0
          /\ st_sleep_time.den = st_interval
          /\ st_interval \in 1..30

\* the put of an iteration leaves the captured frame in the shared cache
PutBeforeSend ==
    (st_pc = "put" /\ st_pc' = "send") =>
        /\ ShotHasKey(sc_cache', MakeKey(StreamRequest))
        /\ ShotEntry(sc_cache', MakeKey(StreamRequest)).data = st_optimized
        /\ ws_frames' = ws_frames

\* C19: every iteration consults the shared screenshot cache first, captures
\* and optimizes only on a miss and then puts the frame into the shared cache
\* before sending, sends exactly one frame, and then sleeps
\* max(0, interval - elapsed), which is never negative.
StreamStepOrder == [][StreamIterationOrder' /\ PutBeforeSend]_vars

\* an iteration answered from the cache followed one that captured, and a
\* sleep was shortened to nothing by the time the iteration took
StreamStepOrderWitness ==
    /\ st_iterations = 2
    /\ st_steps = HitIteration
    /\ Len(ws_frames) = 2
    /\ st_sleep_time.num = 0
    /\ st_sleep_time.elapsed > 0

StreamFrozen ==
    /\ st_pc' = "done"
    /\ ws_frames' = ws_frames
    /\ ws_state = "closed" => ws_state' = "closed"
    /\ st_iterations' = st_iterations
    /\ st_steps' = st_steps
    /\ st_optimized' = st_optimized
    /\ sc_stats'.stores = sc_stats.stores

\* C20: once ws.send has raised, stream_screenshots has returned: no further
\* frame is captured, cached or sent for the connection and the connection is
\* not opened again; and a closed connection leads to the loop's end.
StreamTermination ==
    /\ [][st_pc = "done" => StreamFrozen]_vars
    /\ (ws_state = "closed") ~> (st_pc = "done")

\* the loop ended on a send that raised after a frame had been sent
StreamTerminationWitness ==
    /\ st_pc = "done"
    /\ ws_state = "closed"
    /\ st_steps # <<>>
    /\ st_steps[Len(st_steps)] = "send_failed"
    /\ Len(ws_frames) = 1

(***************************************************************************)
(* Properties of ResponseCompressor                                        *)
(***************************************************************************)
MARKER_LENGTH == 3

CompressReturned == cp_result # NoCompression

\* no field of the mapping is null, an empty string or an empty list, no
\* string is longer than MAX_TEXT_LENGTH plus the marker, no list is longer
\* than MAX_ELEMENTS_FULL
FieldsCompressed(d) ==
    \A k \in DOMAIN d.v :
        /\ ~IsEmptyValue(d.v[k])
        /\ d.v[k].t = "str" => Len(d.v[k].v) <= MAX_TEXT_LENGTH + MARKER_LENGTH
        /\ d.v[k].t = "list" => Len(d.v[k].v) <= MAX_ELEMENTS_FULL

\* ... in the mapping and in every mapping nested in it
RECURSIVE CompressedThroughout(_)
CompressedThroughout(d) ==
    /\ FieldsCompressed(d)
    /\ \A k \in DOMAIN d.v : d.v[k].t = "dict" => CompressedThroughout(d.v[k])

\* a list of more than MAX_ELEMENTS_FULL items became its first
\* MAX_ELEMENTS_FULL items and a count
ListsSummarised(given, returned) ==
    \A k \in DOMAIN returned.v :
        (given.v[k].t = "list" /\ Len(given.v[k].v) > MAX_ELEMENTS_FULL) =>
            /\ returned.v[k].t = "dict"
            /\ returned.v[k].v["count"] = PyInt(Len(given.v[k].v))
            /\ returned.v[k].v["elements"] = PyList(Prefix(given.v[k].v, MAX_ELEMENTS_FULL))

\* C21: the result of compressing a non-error response holds, at top level
\* and in every nested mapping, no null, empty-string or empty-list field, no
\* string longer than MAX_TEXT_LENGTH plus the marker and no list longer than
\* MAX_ELEMENTS_FULL, a longer list being replaced by its first
\* MAX_ELEMENTS_FULL items and a count.
CompressedEverywhere ==
    (CompressReturned /\ ~IsErrorResponse(cp_response)) =>
        /\ CompressedThroughout(cp_result)
        /\ ListsSummarised(cp_response, cp_result)

\* the same at top level only
CompressedAtTopLevel ==
    (CompressReturned /\ ~IsErrorResponse(cp_response)) =>
        /\ FieldsCompressed(cp_result)
        /\ ListsSummarised(cp_response, cp_result)

\* a long string in a nested mapping comes back whole
NestedStringKept ==
    /\ CompressReturned
    /\ ~IsErrorResponse(cp_response)
    /\ "window" \in DOMAIN cp_result.v
    /\ "title" \in DOMAIN cp_result.v["window"].v
    /\ Len(cp_result.v["window"].v["title"].v) > MAX_TEXT_LENGTH + MARKER_LENGTH

(***************************************************************************)
(* Properties of ProgressiveDisclosure                                     *)
(***************************************************************************)
LevelNumber(name) == DISCLOSURE_LEVELS[name]

\* the levels reported now
ReportedLevels == DisclosureLevels(agent_context, failure_count)

\* one step up, capped at detailed
OneStepUp(name) ==
    IF name = "minimal" THEN "standard" ELSE "detailed"

\* the last call was record_request without an explicit level, or
\* record_failure
Escalating ==
    \/ pd_last.op = "record_request" /\ pd_last.explicit_level = NoLevel
    \/ pd_last.op = "record_failure"

\* the last call may lower the level of window w: a reset, or a request
\* naming a level below the reported one
MayLower(w) ==
    \/ pd_last.op = "reset"
    \/ /\ pd_last.op = "record_request"
       /\ pd_last.window = w
       /\ pd_last.explicit_level \in DOMAIN DISCLOSURE_LEVELS
       /\ LevelNumber(pd_last.explicit_level) < LevelNumber(pd_last.before[w])

\* C22: every window starts at minimal; a record_request without an
\* explicit level and a record_failure raise the reported level of their
\* window by one step, capped at detailed; a level goes down only through
\* reset or a request naming an explicit lower level; recording for one
\* window leaves the level of every other window as it was.
DisclosureEscalates ==
    /\ pd_last.op = "none" => \A w \in Windows : ReportedLevels[w] = "minimal"
    /\ Escalating =>
          ReportedLevels[pd_last.window] = OneStepUp(pd_last.before[pd_last.window])
    /\ \A w \in Windows :
          LevelNumber(ReportedLevels[w]) < LevelNumber(pd_last.before[w]) => MayLower(w)
    /\ pd_last.op \in {"record_request", "record_failure"} =>
          \A w \in Windows \ {pd_last.window} : ReportedLevels[w] = pd_last.before[w]

\* a failure of W1 took it from standard to detailed while W2 stayed at
\* standard
DisclosureEscalatesWitness ==
    /\ pd_last.op = "record_failure"
    /\ pd_last.window = "W1"
    /\ pd_last.before["W1"] = "standard"
    /\ ReportedLevels["W1"] = "detailed"
    /\ pd_last.before["W2"] = "standard"
    /\ ReportedLevels["W2"] = "standard"

(***************************************************************************)
(* Properties of the OCR cache                                             *)
(***************************************************************************)
\* the last call was recognize_region and was answered from the cache
RegionAnsweredFromCache ==
    /\ OcrCallMade
    /\ ocr_result.op = "recognize_region"
    /\ ~ocr_result.raised
    /\ ocr_result.tried = <<>>

\* the crop of the last recognize_region call
CalledCrop ==
    Crop(ocr_call.image, ocr_call.region[1], ocr_call.region[2], ocr_call.region[3],
         ocr_call.region[4])

\* C23: a result cached for one region is never returned for a
\* recognize_region call on a different region: a call answered from the
\* cache is answered by the entry read from its own crop.
OcrCacheKeyedByRegion ==
    RegionAnsweredFromCache =>
        <<GetImageHash(CalledCrop), CalledCrop>> \in ocr_stored_for

\* recognize_region on the region 150 wide was answered by what was read in
\* the region 100 wide with the same origin
OcrRegionCollision ==
    /\ RegionAnsweredFromCache
    /\ ocr_call.region = <<0, 0, 150, 100>>
    /\ <<GetImageHash(CalledCrop), Crop(ocr_call.image, 0, 0, 100, 100)>> \in ocr_stored_for
    /\ \A i \in DOMAIN ocr_result.regions : ocr_result.regions[i].text # "Cancel"

\* regions with different origins or sampled sizes never share an entry
OcrCacheKeyedBySample ==
    RegionAnsweredFromCache =>
        \E p \in ocr_stored_for :
            /\ p[1] = GetImageHash(CalledCrop)
            /\ p[2].x = CalledCrop.x /\ p[2].y = CalledCrop.y
            /\ Min2(HASH_SAMPLE, p[2].width) = Min2(HASH_SAMPLE, CalledCrop.width)
            /\ Min2(HASH_SAMPLE, p[2].height) = Min2(HASH_SAMPLE, CalledCrop.height)

\* the key looked up by the recognize call of the step
OcrLookedUp == GetImageHash(Whole(ocr_call'.image))

\* the entries that the step removes to make room: those gone from the
\* cache, but for the entry that the lookup of the step found and deleted
OcrDropped ==
    {i \in DOMAIN ocr_cache :
        /\ ~OcrHasKey(ocr_cache', ocr_cache[i].key)
        /\ ocr_cache[i].key # OcrLookedUp}

\* the step is a recognize call that finds an entry older than the TTL
OcrFindsExpired ==
    /\ ocr_calls' # ocr_calls
    /\ ocr_call'.use_cache
    /\ OcrHasKey(ocr_cache, OcrLookedUp)
    /\ ocr_now - OcrEntry(ocr_cache, OcrLookedUp).timestamp > OCR_CACHE_TTL

\* a call leaves at most OCR_CACHE_LIMIT entries; the entries it removes are
\* no newer than any entry it keeps; an entry older than the TTL is not
\* returned and is deleted: what the cache holds under its key afterwards
\* was stored by the call
OcrCacheStep ==
    /\ ocr_calls' # ocr_calls =>
          /\ Len(ocr_cache') <= OCR_CACHE_LIMIT
          /\ \A i \in OcrDropped, j \in DOMAIN ocr_cache' :
                ocr_cache[i].timestamp <= ocr_cache'[j].timestamp
    /\ OcrFindsExpired =>
          /\ ocr_result'.tried # <<>>
          /\ OcrHasKey(ocr_cache', OcrLookedUp) =>
                OcrEntry(ocr_cache', OcrLookedUp).timestamp = ocr_now

\* C24: the OCR cache holds at most 50 entries after any stores; a store
\* that pushes it over capacity removes the entries with the oldest
\* timestamps; an entry older than the TTL is never returned by _check_cache
\* and is deleted by the lookup that finds it.
OcrCacheBounded == [][OcrCacheStep]_vars

\* at no time more than OCR_CACHE_LIMIT entries
OcrCacheWithinLimit == Len(ocr_cache) <= OCR_CACHE_LIMIT

\* a store into the full cache removed the oldest entries and kept the newest
OcrCacheBoundedWitness ==
    /\ ocr_calls > 0
    /\ Len(ocr_cache) = OCR_CACHE_LIMIT + 1 - OCR_CACHE_DROP
    /\ OcrHasKey(ocr_cache, GetImageHash(Whole(ocr_call.image)))
    /\ ~OcrHasKey(ocr_cache, GetImageHash(Whole(OcrCacheImage(1))))
    /\ OcrHasKey(ocr_cache, GetImageHash(Whole(OcrCacheImage(OCR_CACHE_LIMIT))))
    /\ \E i, j \in DOMAIN ocr_cache : ocr_cache[i].timestamp # ocr_cache[j].timestamp

\* an entry older than the TTL was looked up, and the engines returned
\* nothing to store in its place
OcrExpiredDeletedWitness ==
    /\ ocr_calls = 1
    /\ ~OcrHasKey(ocr_cache, GetImageHash(Whole(OcrCacheImage(1))))
    /\ ocr_call.image = OcrCacheImage(1)
    /\ ocr_result.tried # <<>>
    /\ Len(ocr_cache) >= OCR_CACHE_LIMIT - 2

(***************************************************************************)
(* Properties of find_text_fast                                            *)
(***************************************************************************)
FindReturned ==
    /\ vision_call.op = "find_text_fast"
    /\ vision_result # Pending

\* the hint regions that find_text_fast recognized, as it recognized them
HintsRecognized ==
    LET IsHint(m) == m.region # FullImage
    IN SelectSeq(vision_result.recognized, IsHint)

FullImageSearchWitness ==
    /\ FindReturned
    /\ Len(vision_call.hint_regions) = MaxHints
    /\ Len(vision_result.recognized) = MaxHints + 1
    /\ vision_result.found # <<>>

(***************************************************************************)
(* Properties of the session cache: eviction, values served, windows       *)
(***************************************************************************)
\* the step is a process_response that calls SemanticCache.set and neither
\* invalidates a window nor records a fingerprint
StoresOnly ==
    /\ last'.op = "process_response"
    /\ enabled
    /\ ShouldStore(last'.action, last'.response)
    /\ last'.action \notin STATE_MODIFYING_COMMANDS
    /\ last'.action \notin FINGERPRINT_COMMANDS
    /\ cache' # cache

\* the key the step stores under
StoredKey == NormalizeKey(last'.action, last'.params)

\* a set that replaces an entry, or finds room, removes no entry
SetEvictsOnlyWhenFullStep ==
    (StoresOnly /\ (HasKey(cache, StoredKey) \/ Len(cache) < max_entries)) =>
        KeysOf(cache) \subseteq KeysOf(cache')

\* a set that removes an entry removes the one at the old end of the order
SetEvictsOldestStep ==
    StoresOnly =>
        \A i \in DOMAIN cache :
            (~HasKey(cache', cache[i].key)) => i = 1

\* C26: the session cache never holds more than max_entries entries; a set
\* evicts only when adding the entry would otherwise exceed max_entries, and
\* then the entry at the old end of the use order.
SetEvictsOnlyWhenFull ==
    /\ [](Len(cache) <= max_entries)
    /\ [][SetEvictsOnlyWhenFullStep /\ SetEvictsOldestStep]_vars

\* the capacity and the position of the evicted entry alone
SetKeepsCapacity ==
    /\ [](Len(cache) <= max_entries)
    /\ [][SetEvictsOldestStep]_vars

\* the last call was a get_cached that hit
HitReturned == last.op = "get_cached" /\ last.hit

\* C27: a get_cached hit returns the value that process_response returned to
\* the caller when the entry was stored.  Under SpecSession every response is
\* processed with compress=True by the enabled manager, so that value is the
\* compressed form of the response the entry was stored for.
HitServesReturnedValue ==
    HitReturned => last.value = ProcessResult(TRUE, last.entry.value, TRUE)

\* a hit returns the response as it was handed to process_response
HitServesRawResponse ==
    HitReturned => last.value = last.entry.value

\* a hit returned the text untruncated and the empty field that compress
\* had stripped from what process_response returned
RawTextServed ==
    /\ HitReturned
    /\ "text" \in DOMAIN last.value.v
    /\ last.value.v["text"] = PyStr(Chars(MAX_TEXT_LENGTH + 1))
    /\ "note" \in DOMAIN last.value.v

\* the step is invalidate_window, or process_response of a state-modifying
\* action by the enabled manager
InvalidatingStep ==
    \/ last'.op = "invalidate_window"
    \/ /\ last'.op = "process_response"
       /\ last'.action \in STATE_MODIFYING_COMMANDS
       /\ enabled

\* the entries stored for another window than the one of the step, and
\* those of the desktop scope, stay in the cache
OtherWindowsKeptStep ==
    InvalidatingStep =>
        \A i \in DOMAIN cache :
            WindowOrSelector(cache[i].key[2]) # WindowOrSelector(last'.params)
                => HasKey(cache', cache[i].key)

\* C28: invalidate_window(W1), or a state-modifying action processed for
\* W1, removes no entry stored for a different window W2, also when neither
\* window has a recorded fingerprint, and no desktop-scope entry.
InvalidationIsolated == [][OtherWindowsKeptStep]_vars

\* the same for entries whose window has a fingerprint of its own
FingerprintedWindowsKeptStep ==
    InvalidatingStep =>
        \A i \in DOMAIN cache :
            (/\ WindowOrSelector(cache[i].key[2]) # WindowOrSelector(last'.params)
             /\ cache[i].window_hash # "unknown"
             /\ cache[i].window_hash # GetWindowHash(window_hashes,
                                                     WindowOrSelector(last'.params)))
                => HasKey(cache', cache[i].key)

InvalidationIsolatedByFingerprint == [][FingerprintedWindowsKeptStep]_vars

\* invalidate_window(W1) emptied a cache that held an entry of W1 and one of
\* W2, neither window having a fingerprint
UnknownWindowsRemovedTogether ==
    /\ last.op = "invalidate_window"
    /\ last.params.window = "W1"
    /\ \A w \in Windows : window_hashes[w] = NoHash
    /\ last.invalidated = 2
    /\ cache = <<>>

\* C29: a read cached for a window before a state-modifying action on that
\* window was passed to process_response is not served afterwards: a
\* get_cached for it is a miss, also when the action was processed while the
\* manager was disabled and the lookup follows enable().
NoStaleReadAfterMutation ==
    HitReturned => ~last.stale

\* a hit served a read cached before an action that changed its window
StaleHitAfterEnable ==
    /\ HitReturned
    /\ last.stale
    /\ enabled

(***************************************************************************)
(* Properties of the tiles                                                 *)
(***************************************************************************)
\* the pixel (px, py) lies in a tile passed to the detector
PixelCovered(px, py) ==
    \E t \in vision_result.tiles :
        /\ t.left <= px /\ px < t.right
        /\ t.top <= py /\ py < t.bottom

\* The tile edges cut the image into cells whose pixels are covered or not
\* together, so it is enough to look at the first pixel of each cell.
CellColumns ==
    {c \in {0} \cup {t.left : t \in vision_result.tiles}
               \cup {t.right : t \in vision_result.tiles} :
        c < vision_call.image.width}

CellRows ==
    {r \in {0} \cup {t.top : t \in vision_result.tiles}
               \cup {t.bottom : t \in vision_result.tiles} :
        r < vision_call.image.height}

\* C30: whatever the size of the image, the tiles passed to the detector
\* cover every pixel of it.
TilesCoverImage ==
    TilingReturned => \A px \in CellColumns, py \in CellRows : PixelCovered(px, py)

\* the same when no position of the loops was skipped
TilesCoverImageUnlessSkipped ==
    (/\ TilingReturned
     /\ Cardinality(vision_result.tiles) = Cardinality(TilePositions(vision_call.image)))
        => \A px \in CellColumns, py \in CellRows : PixelCovered(px, py)

\* an image 650 pixels wide had one tile passed to the detector, which ends at
\* column 640
RightEdgeUncovered ==
    /\ TilingReturned
    /\ vision_call.image.width = 650
    /\ vision_call.image.height = 300
    /\ vision_result.tiles = {[left |-> 0, top |-> 0, right |-> 640, bottom |-> 300]}
    /\ ~PixelCovered(640, 0)

====
